---- MODULE Spec2Model ----
(***************************************************************************)
(* A model of the sylt-2d rigid-body engine: math_utils.rs, body.rs,       *)
(* collide.rs, arbiter.rs, joint.rs and world.rs.                          *)
(*                                                                         *)
(* f32 values are modelled as fixed-point numbers: the integer n stands    *)
(* for the real n / Scale.  Products and quotients round to the nearest    *)
(* representable value, as f32 arithmetic does at its own resolution.      *)
(***************************************************************************)
EXTENDS Integers, Sequences, FiniteSets, TLC

\* ------------------------------------------------------------ f32 arithmetic

\* Fixed-point resolution: 1.0 is Scale.
Scale == 1000

\* f32::MAX, the "infinite mass" sentinel (body.rs: mass < f32::MAX).
F32_MAX == 2000000000

\* What f32 division by zero yields (no panic): an infinity.
F32_INFINITY == 2100000000

Abs(a) == IF a < 0 THEN -a ELSE a

Sgn(a) == IF a < 0 THEN -1 ELSE 1

Min(a, b) == IF a < b THEN a ELSE b

Max(a, b) == IF a > b THEN a ELSE b

\* f32::clamp(v, lo, hi); Rust panics when lo > hi.
\* A clamp that forgets the lower limit
ClampAbove(v, lo, hi) == IF v > hi THEN hi ELSE v

Clamp(v, lo, hi) == IF v < lo THEN lo ELSE IF v > hi THEN hi ELSE v

\* a * b on f32, rounded to the nearest step; the product is taken in two
\* parts so that no intermediate value exceeds the result
MulMagnitude(big, small) ==
    (big \div Scale) * small + ((big % Scale) * small + Scale \div 2) \div Scale

FMul(a, b) == Sgn(a) * Sgn(b) * MulMagnitude(Max(Abs(a), Abs(b)), Min(Abs(a), Abs(b)))

\* a / b on f32, rounded to the nearest step
DivMagnitude(n, d) == (n \div d) * Scale + ((n % d) * Scale + d \div 2) \div d

FDiv(a, b) ==
    IF b = 0
    THEN Sgn(a) * F32_INFINITY
    ELSE Sgn(a) * Sgn(b) * DivMagnitude(Abs(a), Abs(b))

RECURSIVE ISqrtSearch(_, _, _)
ISqrtSearch(n, lo, hi) ==
    IF lo >= hi THEN lo
    ELSE LET mid == (lo + hi + 1) \div 2
         IN  IF mid * mid <= n THEN ISqrtSearch(n, mid, hi)
             ELSE ISqrtSearch(n, lo, mid - 1)

\* f32::sqrt
FSqrt(a) == ISqrtSearch(a * Scale, 0, 46340)

\* pi, pi/2 and 2*pi at the model's resolution
PI == 3142

HALF_PI == 1571

TWO_PI == 6283

\* The angle brought into [-pi, pi)
WrapAngle(a) == ((a + PI) % TWO_PI) - PI

\* sin on [-pi/2, pi/2]: x - x^3/6 + x^5/120 - x^7/5040
SinSeries(x) ==
    LET sum(x3, x5, x7) ==
            x - FDiv(x3, 6 * Scale) + FDiv(x5, 120 * Scale) - FDiv(x7, 5040 * Scale)
        from5(x2, x3, x5) == sum(x3, x5, FMul(x5, x2))
        from3(x2, x3) == from5(x2, x3, FMul(x3, x2))
        from2(x2) == from3(x2, FMul(x2, x))
    IN  from2(FMul(x, x))

\* cos on [-pi/2, pi/2]: 1 - x^2/2 + x^4/24 - x^6/720 + x^8/40320
CosSeries(x) ==
    LET sum(x2, x4, x6, x8) ==
            Scale - FDiv(x2, 2 * Scale) + FDiv(x4, 24 * Scale) - FDiv(x6, 720 * Scale)
                  + FDiv(x8, 40320 * Scale)
        from4(x2, x4) == sum(x2, x4, FMul(x4, x2), FMul(x4, x4))
        from2(x2) == from4(x2, FMul(x2, x2))
    IN  from2(FMul(x, x))

\* f32::sin
FSin(a) ==
    LET reduced(y) == IF y > HALF_PI THEN PI - y
                      ELSE IF y < -HALF_PI THEN -PI - y
                      ELSE y
    IN  SinSeries(reduced(WrapAngle(a)))

\* f32::cos
FCos(a) ==
    LET reduced(y) == IF y > HALF_PI THEN PI - y
                      ELSE IF y < -HALF_PI THEN -PI - y
                      ELSE y
        sign(y) == IF y > HALF_PI \/ y < -HALF_PI THEN -1 ELSE 1
    IN  sign(WrapAngle(a)) * CosSeries(reduced(WrapAngle(a)))

\* ------------------------------------------------------------ math_utils.rs

Vec2(x, y) == [x |-> x, y |-> y]

VZero == Vec2(0, 0)

VAdd(a, b) == Vec2(a.x + b.x, a.y + b.y)

VSub(a, b) == Vec2(a.x - b.x, a.y - b.y)

VMul(a, s) == Vec2(FMul(a.x, s), FMul(a.y, s))

VNeg(a) == Vec2(-a.x, -a.y)

VAbs(a) == Vec2(Abs(a.x), Abs(a.y))

Dot(a, b) == FMul(a.x, b.x) + FMul(a.y, b.y)

VLength(a) == FSqrt(FMul(a.x, a.x) + FMul(a.y, a.y))

\* Cross<Vec2> for Vec2
CrossVV(a, b) == FMul(a.x, b.y) - FMul(a.y, b.x)

\* Cross<f32> for Vec2
CrossVS(a, s) == Vec2(FMul(a.y, s), FMul(a.x, -s))

\* Cross<Vec2> for f32
CrossSV(s, a) == Vec2(FMul(-s, a.y), FMul(s, a.x))

Mat2x2(c1, c2) == [col1 |-> c1, col2 |-> c2]

\* Mat2x2::new_from_angle: col1 = (c, -s), col2 = (s, c)
new_from_angle(angle) ==
    LET mat(c, s) == Mat2x2(Vec2(c, -s), Vec2(s, c))
    IN  mat(FCos(angle), FSin(angle))

transpose(m) == Mat2x2(Vec2(m.col1.x, m.col2.x), Vec2(m.col1.y, m.col2.y))

MDet(m) == FMul(m.col1.x, m.col2.y) - FMul(m.col2.x, m.col1.y)

\* Mat2x2::invert asserts det != 0 (a panic when it is 0) ...
InvertPanics(m) == MDet(m) = 0

\* An inverse whose off-diagonal entries keep their signs
invert_keeping_signs(m) ==
    LET a == m.col1.x
        b == m.col2.x
        c == m.col1.y
        d == m.col2.y
        scaled(det) ==
            Mat2x2(Vec2(FMul(det, d), FMul(det, c)), Vec2(FMul(det, b), FMul(det, a)))
    IN  scaled(MDet(m))

\* ... and multiplies the adjugate by det.
invert(m) ==
    LET a == m.col1.x
        b == m.col2.x
        c == m.col1.y
        d == m.col2.y
        scaled(det) ==
            Mat2x2(Vec2(FMul(det, d), FMul(-det, c)), Vec2(FMul(-det, b), FMul(det, a)))
    IN  scaled(MDet(m))

MAbs(m) == Mat2x2(VAbs(m.col1), VAbs(m.col2))

MAdd(m, n) == Mat2x2(VAdd(m.col1, n.col1), VAdd(m.col2, n.col2))

MMulV(m, v) ==
    Vec2(FMul(m.col1.x, v.x) + FMul(m.col2.x, v.y),
         FMul(m.col1.y, v.x) + FMul(m.col2.y, v.y))

MMulM(m, n) == Mat2x2(MMulV(m, n.col1), MMulV(m, n.col2))

\* ------------------------------------------------------------ body.rs

\* Rust's % on isize truncates toward zero.
RustRem(a, n) == Sgn(a) * (Abs(a) % n)

RECURSIVE SumSeq(_)
SumSeq(s) == IF s = <<>> THEN 0 ELSE Head(s) + SumSeq(Tail(s))

\* Vec::reverse
Reverse(s) == [i \in 1..Len(s) |-> s[Len(s) + 1 - i]]

\* ConvexPolygon::get_num_vertices
get_num_vertices(vs) == Len(vs)

\* The index ConvexPolygon::get_vertex reads (0-based): (i + n + 1) % n.
VertexIndex(vs, i) == RustRem(i + Len(vs) + 1, Len(vs))

\* ConvexPolygon::get_vertex; a negative index is an out-of-bounds panic.
get_vertex(vs, i) == vs[VertexIndex(vs, i) + 1]

\* ConvexPolygon::get_edge
get_edge(vs, i) == VSub(get_vertex(vs, i + 1), get_vertex(vs, i))

\* ConvexPolygon::get_normal
get_normal(vs, i) == LET edge == get_edge(vs, i) IN Vec2(edge.y, -edge.x)

\* The shoelace sum of ConvexPolygon::area, centroid: sum of p1 x p2.
ShoelaceTerms(vs) ==
    [k \in 1..Len(vs) |->
        LET p1 == get_vertex(vs, k - 1)
            p2 == get_vertex(vs, k)
        IN  FMul(p1.x, p2.y) - FMul(p1.y, p2.x)]

\* ConvexPolygon::area: area.abs() / 2.0
area(vs) == FDiv(Abs(SumSeq(ShoelaceTerms(vs))), 2 * Scale)

\* ConvexPolygon::orient_counterclockwise: reverse when area() < 0
orient_counterclockwise(vs) == IF area(vs) < 0 THEN Reverse(vs) ELSE vs

\* ConvexPolygon::centroid
centroid(vs) ==
    LET from(cross) ==
            LET cx == SumSeq([k \in 1..Len(vs) |->
                          FMul(get_vertex(vs, k - 1).x + get_vertex(vs, k).x, cross[k])])
                cy == SumSeq([k \in 1..Len(vs) |->
                          FMul(get_vertex(vs, k - 1).y + get_vertex(vs, k).y, cross[k])])
                over(six_a) == Vec2(FDiv(cx, six_a), FDiv(cy, six_a))
            IN  over(FMul(6 * Scale, FDiv(SumSeq(cross), 2 * Scale)))
    IN  from(ShoelaceTerms(vs))

\* ConvexPolygon::moi: second moment about the centroid, moi.abs() / 12.0
polygon_moi(vs) ==
    LET term(p1, p2) ==
            FMul(FMul(p1.x, p2.y) - FMul(p1.y, p2.x),
                 FMul(p1.x, p1.x) + FMul(p1.x, p2.x) + FMul(p2.x, p2.x)
                 + FMul(p1.y, p1.y) + FMul(p1.y, p2.y) + FMul(p2.y, p2.y))
        about(c) ==
            FDiv(Abs(SumSeq([k \in 1..Len(vs) |->
                        term(VSub(get_vertex(vs, k - 1), c), VSub(get_vertex(vs, k), c))])),
                 12 * Scale)
    IN  about(centroid(vs))

RECURSIVE SeqMin(_)
SeqMin(s) == IF Len(s) = 1 THEN s[1] ELSE Min(s[1], SeqMin(Tail(s)))

RECURSIVE SeqMax(_)
SeqMax(s) == IF Len(s) = 1 THEN s[1] ELSE Max(s[1], SeqMax(Tail(s)))

\* ConvexPolygon::bounding_box
bounding_box(vs) ==
    LET xs == [k \in 1..Len(vs) |-> vs[k].x]
        ys == [k \in 1..Len(vs) |-> vs[k].y]
    IN  IF vs = <<>>
        THEN \* f32::MIN - f32::MAX: the difference overflows to -infinity
             Vec2(-F32_INFINITY, -F32_INFINITY)
        ELSE Vec2(SeqMax(xs) - SeqMin(xs), SeqMax(ys) - SeqMin(ys))

\* ConvexPolygon::rotate: about the centroid, which is not added back
rotate(vs, angle) ==
    LET about(center, rotation_mat) ==
            [k \in 1..Len(vs) |-> MMulV(rotation_mat, VSub(vs[k], center))]
    IN  about(centroid(vs), new_from_angle(angle))

\* ConvexPolygon::translate
translate(vs, position) == [k \in 1..Len(vs) |-> VAdd(vs[k], position)]

\* Mass properties that leave the sentinel's inverse moment of inertia nonzero
MassPropertiesFiniteMoi(mass, unit_moi) ==
    IF mass < F32_MAX
    THEN LET with(moi) ==
                 [inv_mass |-> FDiv(Scale, mass), moi |-> moi, inv_moi |-> FDiv(Scale, moi)]
         IN  with(FMul(mass, unit_moi))
    ELSE [inv_mass |-> 0, moi |-> F32_MAX, inv_moi |-> FDiv(Scale, unit_moi)]

\* The mass properties both constructors derive: inv_mass, moi, inv_moi.
\* `unit_moi` is the moment of inertia per unit mass.
MassProperties(mass, unit_moi) ==
    IF mass < F32_MAX
    THEN LET with(moi) ==
                 [inv_mass |-> FDiv(Scale, mass), moi |-> moi, inv_moi |-> FDiv(Scale, moi)]
         IN  with(FMul(mass, unit_moi))
    ELSE [inv_mass |-> 0, moi |-> F32_MAX, inv_moi |-> 0]

\* Body::new(width, mass), with the id the counter handed out
BodyNew(id, width, mass) ==
    LET body(mp, hw, hh) ==
            [id |-> id, position |-> VZero, rotation |-> 0, velocity |-> VZero,
             angular_velocity |-> 0, force |-> VZero, torque |-> 0, friction |-> 0,
             width |-> width, mass |-> mass, inv_mass |-> mp.inv_mass,
             inv_moi |-> mp.inv_moi, moi |-> mp.moi,
             vertices |-> <<Vec2(hw, hh), Vec2(-hw, hh), Vec2(-hw, -hh), Vec2(hw, -hh)>>,
             shape |-> "Box"]
    IN  body(MassProperties(mass,
                 FDiv(FMul(width.x, width.x) + FMul(width.y, width.y), 12 * Scale)),
             FDiv(width.x, 2 * Scale), FDiv(width.y, 2 * Scale))

\* Body::new_polygon(vertices, mass): the vertex list is stored as given
BodyNewPolygon(id, vertices, mass) ==
    LET body(mp, width) ==
            [id |-> id, position |-> VZero, rotation |-> 0, velocity |-> VZero,
             angular_velocity |-> 0, force |-> VZero, torque |-> 0, friction |-> 0,
             width |-> width, mass |-> mass,
             inv_mass |-> mp.inv_mass, inv_moi |-> mp.inv_moi, moi |-> mp.moi,
             vertices |-> vertices, shape |-> "ConvexPolygon"]
        from(convex_polygon) ==
            body(MassProperties(mass, polygon_moi(convex_polygon)),
                 bounding_box(convex_polygon))
    IN  from(orient_counterclockwise(vertices))

\* Body::add_force
add_force(body, force) == [body EXCEPT !.force = VAdd(body.force, force)]

\* Body::get_polygon
get_polygon(body) == body.vertices

\* ------------------------------------------------------------ arbiter.rs (types)

\* Option<T>: Some(v) is <<v>>, None is <<>>
Some(v) == <<v>>

None == <<>>

IsSome(o) == Len(o) = 1

Unwrap(o) == o[1]

EdgeNumbers == {"NoEdge", "Edge1", "Edge2", "Edge3", "Edge4"}

\* Edges::default
EdgesDefault ==
    [in_edge_1 |-> "NoEdge", out_edge_1 |-> "NoEdge",
     in_edge_2 |-> "NoEdge", out_edge_2 |-> "NoEdge"]

\* FeaturePair::new(edges, value)
FeaturePair(edges, value) == [edges |-> edges, value |-> value]

\* ContactInfo { position, normal, separation, feature, ..Default::default() }
ContactInfo(position, normal, separation, feature) ==
    [position |-> position, normal |-> normal, r1 |-> VZero, r2 |-> VZero,
     separation |-> separation, pn |-> 0, pt |-> 0, pnb |-> 0,
     mass_normal |-> 0, mass_tangent |-> 0, bias |-> 0, feature |-> feature]

\* ------------------------------------------------------------ collide.rs

\* ClipVertex::default
ClipVertexDefault == [fp |-> FeaturePair(EdgesDefault, 0), v |-> VZero]

\* flip: swap the in edges and the out edges
flip(fp) ==
    [fp EXCEPT !.edges = [in_edge_1 |-> fp.edges.in_edge_2,
                          out_edge_1 |-> fp.edges.out_edge_2,
                          in_edge_2 |-> fp.edges.in_edge_1,
                          out_edge_2 |-> fp.edges.out_edge_1]]

\* A clip that keeps the end points behind the line and adds no crossing point
clip_segment_no_crossing(v_out, v_in, normal, offset, clip_edge) ==
    LET result(out) ==
            [v_out |-> [k \in 1..2 |-> IF k <= Len(out) THEN out[k] ELSE v_out[k]],
             num_out |-> Len(out)]
        from(distance_0, distance_1) ==
            result((IF distance_0 <= 0 THEN <<v_in[1]>> ELSE <<>>)
                   \o (IF distance_1 <= 0 THEN <<v_in[2]>> ELSE <<>>))
    IN  from(Dot(normal, v_in[1].v) - offset, Dot(normal, v_in[2].v) - offset)

\* clip_segment_to_line: v_out as it is left, and num_out
clip_segment_to_line(v_out, v_in, normal, offset, clip_edge) ==
    LET result(out) ==
            [v_out |-> [k \in 1..2 |-> IF k <= Len(out) THEN out[k] ELSE v_out[k]],
             num_out |-> Len(out)]
        from(distance_0, distance_1) ==
            LET out1 == IF distance_0 <= 0 THEN <<v_in[1]>> ELSE <<>>
                out2 == IF distance_1 <= 0 THEN <<v_in[2]>> ELSE <<>>
                interp == FDiv(distance_0, distance_0 - distance_1)
                cut == VAdd(v_in[1].v, VMul(VSub(v_in[2].v, v_in[1].v), interp))
                crossing ==
                    [fp |-> IF distance_0 > 0
                            THEN [v_in[1].fp EXCEPT !.edges.in_edge_1 = clip_edge,
                                                    !.edges.in_edge_2 = "NoEdge"]
                            ELSE [v_in[2].fp EXCEPT !.edges.out_edge_1 = clip_edge,
                                                    !.edges.out_edge_2 = "NoEdge"],
                     v |-> cut]
                \* distance_0 * distance_1 < 0.0: the end points lie on different sides
                crosses == \/ (distance_0 < 0 /\ distance_1 > 0)
                           \/ (distance_0 > 0 /\ distance_1 < 0)
            IN  result(out1 \o out2 \o (IF crosses THEN <<crossing>> ELSE <<>>))
    IN  from(Dot(normal, v_in[1].v) - offset, Dot(normal, v_in[2].v) - offset)

\* compute_incident_edge
compute_incident_edge(h, pos, rot, normal) ==
    LET cv(x, y, in_edge, out_edge) ==
            [fp |-> FeaturePair([EdgesDefault EXCEPT !.in_edge_2 = in_edge,
                                                     !.out_edge_2 = out_edge], 0),
             v |-> VAdd(pos, MMulV(rot, Vec2(x, y)))]
        facing(n, abs_n) ==
            IF abs_n.x > abs_n.y
            THEN IF n.x > 0
                 THEN <<cv(h.x, -h.y, "Edge3", "Edge4"), cv(h.x, h.y, "Edge4", "Edge1")>>
                 ELSE <<cv(-h.x, h.y, "Edge1", "Edge2"), cv(-h.x, -h.y, "Edge2", "Edge3")>>
            ELSE IF n.y > 0
                 THEN <<cv(h.x, h.y, "Edge4", "Edge1"), cv(-h.x, h.y, "Edge1", "Edge2")>>
                 ELSE <<cv(-h.x, -h.y, "Edge2", "Edge3"), cv(h.x, -h.y, "Edge3", "Edge4")>>
        from(n) == facing(n, VAbs(n))
    IN  from(VNeg(MMulV(transpose(rot), normal)))

\* Tolerances of the axis choice (0.95 and 0.01)
RELATIVE_TOL == 950

ABSOLUTE_TOL == 10

\* collide: the axis of least penetration, with its separation and normal
CollideAxis(face_a, face_b, d_a, d_b, rot_a, rot_b, h_a, h_b) ==
    LET s0 == [axis |-> "FaceAX", separation |-> face_a.x,
               normal |-> IF d_a.x > 0 THEN rot_a.col1 ELSE VNeg(rot_a.col1)]
        s1 == IF face_a.y > FMul(RELATIVE_TOL, s0.separation) + FMul(ABSOLUTE_TOL, h_a.y)
              THEN [axis |-> "FaceAY", separation |-> face_a.y,
                    normal |-> IF d_a.y > 0 THEN rot_a.col2 ELSE VNeg(rot_a.col2)]
              ELSE s0
        s2 == IF face_b.x > FMul(RELATIVE_TOL, s1.separation) + FMul(ABSOLUTE_TOL, h_b.x)
              THEN [axis |-> "FaceBX", separation |-> face_b.x,
                    normal |-> IF d_b.x > 0 THEN rot_b.col1 ELSE VNeg(rot_b.col1)]
              ELSE s1
    IN  IF face_b.y > FMul(RELATIVE_TOL, s2.separation) + FMul(ABSOLUTE_TOL, h_b.y)
        THEN [axis |-> "FaceBY", separation |-> face_b.y,
              normal |-> IF d_b.y > 0 THEN rot_b.col2 ELSE VNeg(rot_b.col2)]
        ELSE s2

\* collide: the reference face set up for the chosen axis
CollideSetup(axis, normal, pos_a, pos_b, rot_a, rot_b, h_a, h_b) ==
    LET ref(front_normal, pos, h_front, side_normal, h_side, neg_edge, pos_edge, inc) ==
            LET sides(side) ==
                    [front_normal |-> front_normal,
                     front |-> Dot(pos, front_normal) + h_front,
                     side_normal |-> side_normal,
                     neg_side |-> -side + h_side, pos_side |-> side + h_side,
                     neg_edge |-> neg_edge, pos_edge |-> pos_edge,
                     incident_edge |-> inc]
            IN  sides(Dot(pos, side_normal))
        \* on_b, on_a: the incident edge, which is on the other box
        face(on_b, on_a) ==
            CASE axis = "FaceAX" ->
                   ref(normal, pos_a, h_a.x, rot_a.col2, h_a.y, "Edge3", "Edge1", on_b)
              [] axis = "FaceAY" ->
                   ref(normal, pos_a, h_a.y, rot_a.col1, h_a.x, "Edge2", "Edge4", on_b)
              [] axis = "FaceBX" ->
                   ref(VNeg(normal), pos_b, h_b.x, rot_b.col2, h_b.y, "Edge3", "Edge1", on_a)
              [] axis = "FaceBY" ->
                   ref(VNeg(normal), pos_b, h_b.y, rot_b.col1, h_b.x, "Edge2", "Edge4", on_a)
    IN  face(compute_incident_edge(h_b, pos_b, rot_b, normal),
             compute_incident_edge(h_a, pos_a, rot_a, VNeg(normal)))

\* collide: the contacts kept from the clipped points (separation <= 0)
RECURSIVE CollideContacts(_, _, _, _)
CollideContacts(points, axis, normal, rf) ==
    IF points = <<>> THEN <<>>
    ELSE LET clip_point == Head(points)
             fp == IF axis = "FaceBX" \/ axis = "FaceBY"
                   THEN flip(clip_point.fp) ELSE clip_point.fp
             pushed(separation) ==
                 IF separation <= 0
                 THEN <<Some(ContactInfo(VSub(clip_point.v,
                                              VMul(rf.front_normal, separation)),
                                         normal, separation, fp))>>
                 ELSE <<>>
         IN  pushed(Dot(rf.front_normal, clip_point.v) - rf.front)
             \o CollideContacts(Tail(points), axis, normal, rf)

\* Half-widths that are the whole widths
WholeWidth(body) == body.width

\* h_a, h_b = 0.5 * body.width
HalfWidth(body) == VMul(body.width, Scale \div 2)

\* collide(contacts, body_a, body_b): the contacts pushed (their number is returned)
collide(body_a, body_b) ==
    LET boxes(h_a, h_b, pos_a, pos_b, rot_a, rot_b) ==
            LET rot_a_t == transpose(rot_a)
                rot_b_t == transpose(rot_b)
                d_p == VSub(pos_b, pos_a)
                blank == <<ClipVertexDefault, ClipVertexDefault>>
                \* the contacts of the points left by the two clips
                clipped(ch, rf, clip1, clip2) ==
                    IF clip1.num_out < 2 THEN <<>>
                    ELSE IF clip2.num_out < 2 THEN <<>>
                    ELSE CollideContacts(clip2.v_out, ch.axis, ch.normal, rf)
                second(ch, rf, clip1) ==
                    clipped(ch, rf, clip1,
                            clip_segment_to_line(blank, clip1.v_out,
                                                 rf.side_normal, rf.pos_side, rf.pos_edge))
                first(ch, rf) ==
                    second(ch, rf,
                           clip_segment_to_line(blank, rf.incident_edge,
                                                VNeg(rf.side_normal), rf.neg_side,
                                                rf.neg_edge))
                chosen(ch) ==
                    first(ch, CollideSetup(ch.axis, ch.normal, pos_a, pos_b,
                                           rot_a, rot_b, h_a, h_b))
                faces(d_a, d_b, face_a, face_b) ==
                    IF face_a.x > 0 \/ face_a.y > 0 THEN <<>>
                    ELSE IF face_b.x > 0 \/ face_b.y > 0 THEN <<>>
                    ELSE chosen(CollideAxis(face_a, face_b, d_a, d_b,
                                            rot_a, rot_b, h_a, h_b))
                frames(d_a, d_b, abs_c) ==
                    faces(d_a, d_b,
                          VSub(VSub(VAbs(d_a), h_a), MMulV(abs_c, h_b)),
                          VSub(VSub(VAbs(d_b), h_b), MMulV(transpose(abs_c), h_a)))
            IN  frames(MMulV(rot_a_t, d_p), MMulV(rot_b_t, d_p),
                       MAbs(MMulM(rot_a_t, rot_b)))
    IN  boxes(HalfWidth(body_a), HalfWidth(body_b),
              body_a.position, body_b.position,
              new_from_angle(body_a.rotation), new_from_angle(body_b.rotation))

\* ------------------------------------------------------------ collide_polygon.rs

\* Concatenation of a sequence of sequences
RECURSIVE Flatten(_)
Flatten(ss) == IF ss = <<>> THEN <<>> ELSE Head(ss) \o Flatten(Tail(ss))

\* which_side(polygon, p, d): 1, -1, or 0 when the line splits the polygon
which_side(polygon, p, d) ==
    LET t(k) == Dot(d, VSub(get_vertex(polygon, k - 1), p))
        pos == \E k \in 1..Len(polygon) : t(k) > 0
        neg == \E k \in 1..Len(polygon) : t(k) < 0
    IN  IF pos /\ neg THEN 0 ELSE IF pos THEN 1 ELSE -1

\* test_intersection: one pass, the edges of c0 against c1
SeparatedByEdgeOf(c0, c1) ==
    \E i0 \in 0..(Len(c0) - 1) :
        which_side(c1, get_vertex(c0, (i0 + 1) % Len(c0)), get_normal(c0, i0)) > 0

\* test_intersection(c0, c1)
test_intersection(c0, c1) == ~SeparatedByEdgeOf(c0, c1) /\ ~SeparatedByEdgeOf(c1, c0)

\* clip_polygon: the polygon clipped against edge j of the clipping polygon
ClipAgainstEdge(polygon, clip, j) ==
    LET edge_start == get_vertex(clip, j)
        edge_normal == get_normal(clip, j)
        dist(v) == FDiv(Dot(edge_normal, VSub(v, edge_start)), VLength(edge_normal))
        kept(current, next, dist_current, dist_next) ==
            LET interp == FDiv(dist_current, dist_current - dist_next)
                crosses == (dist_current < 0 /\ dist_next > 0)
                           \/ (dist_current > 0 /\ dist_next < 0)
            IN  (IF dist_current <= 0 THEN <<current>> ELSE <<>>)
                \o (IF crosses
                    THEN <<VAdd(current, VMul(VSub(next, current), interp))>>
                    ELSE <<>>)
        segment(current, next) == kept(current, next, dist(current), dist(next))
    IN  Flatten([k \in 1..Len(polygon) |->
                    segment(get_vertex(polygon, k - 1), get_vertex(polygon, k))])

\* clip_polygon: the loop over the edges j, j+1, ... of the clipping polygon
RECURSIVE ClipLoop(_, _, _)
ClipLoop(polygon, clip, j) ==
    IF j >= Len(clip) THEN polygon
    ELSE ClipLoop(ClipAgainstEdge(polygon, clip, j), clip, j + 1)

\* clip_polygon: the unit normal of the clipping edge closest to the vertex
RECURSIVE ClosestNormal(_, _, _, _, _)
ClosestNormal(vertex, clip, j, min_distance, closest_normal) ==
    IF j >= Len(clip) THEN closest_normal
    ELSE LET edge_start == get_vertex(clip, j)
             edge_end == get_vertex(clip, j + 1)
             edge == VSub(edge_end, edge_start)
             raw == Vec2(-edge.y, edge.x)
             closer(normal, distance) ==
                 IF distance < min_distance
                 THEN ClosestNormal(vertex, clip, j + 1, distance, normal)
                 ELSE ClosestNormal(vertex, clip, j + 1, min_distance, closest_normal)
             along(normal) == closer(normal, Abs(Dot(VSub(vertex, edge_start), normal)))
         IN  along(VMul(raw, FDiv(Scale, VLength(raw))))

\* clip_polygon(polygon, clip_polygon): (vertex, normal) pairs
clip_polygon(polygon, clip) ==
    LET with_normals(clipped) ==
            [k \in 1..Len(clipped) |->
                <<clipped[k], ClosestNormal(clipped[k], clip, 0, F32_MAX, VZero)>>]
    IN  with_normals(IF Len(clip) = 0 THEN <<>> ELSE ClipLoop(polygon, clip, 0))

\* find_contact_points(c0, c1)
find_contact_points(c0, c1) ==
    LET contact(point, normal) ==
            Some(ContactInfo(point, normal, FMul(Dot(point, normal), Scale \div 1000),
                             FeaturePair(EdgesDefault, 0)))
        contacts(clipped) ==
            [k \in 1..Len(clipped) |-> contact(clipped[k][1], clipped[k][2])]
    IN  contacts(clip_polygon(c0, c1))

\* collide_polygons(contacts, b1, b2): the contacts left in `contacts`
collide_polygons(b1, b2) ==
    LET placed(c0, c1) ==
            IF test_intersection(c0, c1) THEN find_contact_points(c0, c1) ELSE <<>>
    IN  placed(translate(rotate(get_polygon(b1), b1.rotation), b1.position),
               translate(rotate(get_polygon(b2), b2.rotation), b2.position))

\* ------------------------------------------------------------ arbiter.rs

\* A key that keeps the ids in the order of the arguments
ArbiterKeyAsGiven(body_1, body_2) == <<body_1.id, body_2.id>>

\* ArbiterKey::new(body_1, body_2): the smaller id first
ArbiterKey(body_1, body_2) ==
    IF body_1.id < body_2.id THEN <<body_1.id, body_2.id>> ELSE <<body_2.id, body_1.id>>

\* Arbiter::new swaps the two cells when body_1.id > body_2.id.  RefCell::swap
\* borrows both cells mutably; World::broad_phase calls Arbiter::new while it
\* holds a shared borrow of both, so the swap panics (BorrowMutError).
ArbiterNewPanics(body_1, body_2) == body_1.id > body_2.id

\* Arbiter::new(body_1, body_2) for the cells at indices i and j of the body list
ArbiterNew(bodies, i, j) ==
    LET body_1 == bodies[i]
        body_2 == bodies[j]
        with(contacts) ==
            [body1 |-> i, body2 |-> j,
             friction |-> FSqrt(FMul(body_1.friction, body_2.friction)),
             num_contacts |-> Len(contacts), contacts |-> contacts]
    IN  with(IF body_1.shape = "Box" /\ body_2.shape = "Box"
             THEN collide(body_1, body_2)
             ELSE collide_polygons(body_1, body_2))

\* Arbiter::update: the index (from 1) of the first old contact whose feature
\* value equals that of the new contact, 0 when there is none (k = -1)
MatchingOld(old_contacts, new_contact) ==
    LET hits == {j \in 1..Len(old_contacts) :
                    /\ IsSome(old_contacts[j])
                    /\ Unwrap(old_contacts[j]).feature.value
                         = Unwrap(new_contact).feature.value}
    IN  IF hits = {} THEN 0 ELSE CHOOSE j \in hits : \A h \in hits : j <= h

\* A merge that zeroes the impulses of a matched contact whatever the flag says
MergeContactCold(old_contacts, new_contact, world_context) ==
    IF ~IsSome(new_contact) THEN <<>>
    ELSE IF MatchingOld(old_contacts, new_contact) > 0
    THEN <<Some([Unwrap(new_contact) EXCEPT !.pn = 0, !.pt = 0, !.pnb = 0])>>
    ELSE <<new_contact>>

\* An update that carries the old impulses over whatever warm_starting is
MergeContactWarm(old_contacts, new_contact, world_context) ==
    IF ~IsSome(new_contact) THEN <<>>
    ELSE LET k == MatchingOld(old_contacts, new_contact)
         IN  IF k > 0
             THEN LET c_old == Unwrap(old_contacts[k])
                      c_new == Unwrap(new_contact)
                  IN  <<Some([c_new EXCEPT !.pn = c_old.pn, !.pt = c_old.pt,
                                           !.pnb = c_old.pnb])>>
             ELSE <<new_contact>>

\* Arbiter::update: what one new contact adds to merged_contacts
MergeContact(old_contacts, new_contact, world_context) ==
    IF ~IsSome(new_contact) THEN <<>>
    ELSE LET k == MatchingOld(old_contacts, new_contact)
         IN  IF k > 0
             THEN LET c_old == Unwrap(old_contacts[k])
                      c_new == Unwrap(new_contact)
                  IN  IF world_context.warm_starting
                      THEN <<Some([c_new EXCEPT !.pn = c_old.pn, !.pt = c_old.pt,
                                                !.pnb = c_old.pnb])>>
                      ELSE <<Some([c_new EXCEPT !.pn = 0, !.pt = 0, !.pnb = 0])>>
             ELSE <<new_contact>>

\* An update that fails when a new contact matches no old contact
UpdateResultStrict(arbiter, new_contacts) ==
    IF \E n \in 1..Len(new_contacts) :
          /\ IsSome(new_contacts[n])
          /\ MatchingOld(arbiter.contacts, new_contacts[n]) = 0
    THEN "NoOldContactFound"
    ELSE "Ok"

\* Arbiter::update: the Result it returns.  The errors need a matched old
\* contact that is None, or a new contact that is None past the is_some test.
UpdateResult(arbiter, new_contacts) ==
    IF \E n \in 1..Len(new_contacts) :
          /\ IsSome(new_contacts[n])
          /\ MatchingOld(arbiter.contacts, new_contacts[n]) > 0
          /\ ~IsSome(arbiter.contacts[MatchingOld(arbiter.contacts, new_contacts[n])])
    THEN "NoOldContactFound"
    ELSE "Ok"

\* An update that replaces the contacts and leaves num_contacts as it was
ArbiterUpdateKeepCount(arbiter, new_contacts, num_new_contacts, world_context) ==
    IF UpdateResult(arbiter, new_contacts) # "Ok" THEN arbiter
    ELSE [arbiter EXCEPT
            !.contacts = Flatten([n \in 1..Len(new_contacts) |->
                             MergeContact(arbiter.contacts, new_contacts[n], world_context)])]

\* Arbiter::update(new_contacts, num_new_contacts, world_context)
ArbiterUpdate(arbiter, new_contacts, num_new_contacts, world_context) ==
    IF UpdateResult(arbiter, new_contacts) # "Ok" THEN arbiter
    ELSE [arbiter EXCEPT
            !.contacts = Flatten([n \in 1..Len(new_contacts) |->
                             MergeContact(arbiter.contacts, new_contacts[n], world_context)]),
            !.num_contacts = num_new_contacts]

\* Allowed penetration (0.01) and bias factor (0.2) of Arbiter::pre_step
K_ALLOWED_PENETRATION == 10

K_BIAS_FACTOR == 200

\* body -= P at r (body 1 of a pair), body += P at r (body 2)
SubImpulse(body, r, p) ==
    [body EXCEPT !.velocity = VSub(body.velocity, VMul(p, body.inv_mass)),
                 !.angular_velocity = body.angular_velocity
                                        - FMul(body.inv_moi, CrossVV(r, p))]

AddImpulse(body, r, p) ==
    [body EXCEPT !.velocity = VAdd(body.velocity, VMul(p, body.inv_mass)),
                 !.angular_velocity = body.angular_velocity
                                        + FMul(body.inv_moi, CrossVV(r, p))]

\* Arbiter::pre_step, one contact: the contact and the two bodies after it
PreStepContact(contact, body1, body2, inv_dt, world_context) ==
    LET k_bias_factor == IF world_context.position_correction THEN K_BIAS_FACTOR ELSE 0
        r1 == VSub(contact.position, body1.position)
        r2 == VSub(contact.position, body2.position)
        tangent == CrossVS(contact.normal, Scale)
        \* k_normal and k_tangent, from r . r and the component of r along the axis
        k(rr1, ra1, rr2, ra2) ==
            body1.inv_mass + body2.inv_mass
            + FMul(body1.inv_moi, rr1 - FMul(ra1, ra1))
            + FMul(body2.inv_moi, rr2 - FMul(ra2, ra2))
        bias == FMul(FMul(-k_bias_factor, inv_dt),
                     Min(0, contact.separation + K_ALLOWED_PENETRATION))
        applied(p) ==
            [contact |-> [contact EXCEPT
                            !.mass_normal =
                                FDiv(Scale, k(Dot(r1, r1), Dot(r1, contact.normal),
                                              Dot(r2, r2), Dot(r2, contact.normal))),
                            !.mass_tangent =
                                FDiv(Scale, k(Dot(r1, r1), Dot(r1, tangent),
                                              Dot(r2, r2), Dot(r2, tangent))),
                            !.bias = bias],
             body1 |-> IF world_context.accumulate_impulse
                       THEN SubImpulse(body1, r1, p) ELSE body1,
             body2 |-> IF world_context.accumulate_impulse
                       THEN AddImpulse(body2, r2, p) ELSE body2]
    IN  applied(VAdd(VMul(contact.normal, contact.pn), VMul(tangent, contact.pt)))

\* Arbiter::apply_impulse, one contact
ApplyImpulseContact(contact, friction, body1, body2, world_context) ==
    LET r1 == VSub(contact.position, body1.position)
        r2 == VSub(contact.position, body2.position)
        tangent == CrossVS(contact.normal, Scale)
        RelVel(b1, b2) ==
            VSub(VSub(VAdd(b2.velocity, CrossSV(b2.angular_velocity, r2)), b1.velocity),
                 CrossSV(b1.angular_velocity, r1))
        \* b1n, b2n: the bodies after the normal impulse
        applied(b1n, b2n, pn_acc, d_pn, pt_acc, d_pt, pt) ==
            [contact |-> [contact EXCEPT !.r1 = r1, !.r2 = r2,
                                         !.pn = pn_acc, !.pt = pt_acc],
             body1 |-> SubImpulse(b1n, r1, pt),
             body2 |-> AddImpulse(b2n, r2, pt),
             d_pn |-> d_pn, d_pt |-> d_pt]
        clamped(b1n, b2n, pn_acc, d_pn, pt_acc, d_pt) ==
            applied(b1n, b2n, pn_acc, d_pn, pt_acc, d_pt, VMul(tangent, d_pt))
        \* friction impulse
        friction_impulse(b1n, b2n, pn_acc, d_pn, d_pt_0, max_pt) ==
            LET pt_acc == IF world_context.accumulate_impulse
                          THEN Clamp(contact.pt + d_pt_0, -max_pt, max_pt) ELSE contact.pt
                d_pt == IF world_context.accumulate_impulse
                        THEN pt_acc - contact.pt ELSE Clamp(d_pt_0, -max_pt, max_pt)
            IN  clamped(b1n, b2n, pn_acc, d_pn, pt_acc, d_pt)
        after_normal(b1n, b2n, pn_acc, d_pn) ==
            friction_impulse(b1n, b2n, pn_acc, d_pn,
                             FMul(contact.mass_tangent, -Dot(RelVel(b1n, b2n), tangent)),
                             IF world_context.accumulate_impulse
                             THEN FMul(friction, pn_acc) ELSE FMul(friction, d_pn))
        \* normal impulse
        normal_impulse(d_pn_0) ==
            LET pn_acc == IF world_context.accumulate_impulse
                          THEN Max(contact.pn + d_pn_0, 0) ELSE contact.pn
                d_pn == IF world_context.accumulate_impulse
                        THEN pn_acc - contact.pn ELSE Max(0, d_pn_0)
                pn == VMul(contact.normal, d_pn)
            IN  after_normal(SubImpulse(body1, r1, pn), AddImpulse(body2, r2, pn),
                             pn_acc, d_pn)
    IN  normal_impulse(FMul(contact.mass_normal,
                            -Dot(RelVel(body1, body2), contact.normal) + contact.bias))

\* The loop `for contact in self.contacts.iter_mut()` of pre_step (pre = TRUE)
\* and of apply_impulse (pre = FALSE), from contact k on; a None slot is skipped
RECURSIVE ContactLoop(_, _, _, _, _, _, _)
ContactLoop(arbiter, k, body1, body2, pre, inv_dt, world_context) ==
    IF k > Len(arbiter.contacts)
    THEN [arbiter |-> arbiter, body1 |-> body1, body2 |-> body2]
    ELSE IF ~IsSome(arbiter.contacts[k])
    THEN ContactLoop(arbiter, k + 1, body1, body2, pre, inv_dt, world_context)
    ELSE LET c == Unwrap(arbiter.contacts[k])
             next(r) ==
                 ContactLoop([arbiter EXCEPT !.contacts[k] = Some(r.contact)], k + 1,
                             r.body1, r.body2, pre, inv_dt, world_context)
         IN  next(IF pre
                  THEN PreStepContact(c, body1, body2, inv_dt, world_context)
                  ELSE ApplyImpulseContact(c, arbiter.friction, body1, body2,
                                           world_context))

\* Arbiter::pre_step(inv_dt, world_context): the arbiter and the body list after it
ArbiterPreStep(arbiter, bodies, inv_dt, world_context) ==
    LET done(r) ==
            [arbiter |-> r.arbiter,
             bodies |-> [bodies EXCEPT ![arbiter.body1] = r.body1,
                                       ![arbiter.body2] = r.body2]]
    IN  done(ContactLoop(arbiter, 1, bodies[arbiter.body1], bodies[arbiter.body2],
                         TRUE, inv_dt, world_context))

\* Arbiter::apply_impulse(world_context)
ArbiterApplyImpulse(arbiter, bodies, world_context) ==
    LET done(r) ==
            [arbiter |-> r.arbiter,
             bodies |-> [bodies EXCEPT ![arbiter.body1] = r.body1,
                                       ![arbiter.body2] = r.body2]]
    IN  done(ContactLoop(arbiter, 1, bodies[arbiter.body1], bodies[arbiter.body2],
                         FALSE, 0, world_context))

\* ------------------------------------------------------------ joint.rs

\* The index in the body list of the first body with this id, 0 when none
\* (Joint::new: world.bodies.iter().find(..), which `expect`s a hit)
FindBody(bodies, id) ==
    LET hits == {k \in 1..Len(bodies) : bodies[k].id = id}
    IN  IF hits = {} THEN 0 ELSE CHOOSE k \in hits : \A h \in hits : k <= h

\* Joint::new(body_1, body_2, anchor, world), for bodies found in the world
JointNew(bodies, id_1, id_2, anchor) ==
    LET between(i1, i2) ==
            [body_1 |-> i1, body_2 |-> i2,
             local_anchor_1 |-> MMulV(transpose(new_from_angle(bodies[i1].rotation)),
                                      VSub(anchor, bodies[i1].position)),
             local_anchor_2 |-> MMulV(transpose(new_from_angle(bodies[i2].rotation)),
                                      VSub(anchor, bodies[i2].position)),
             softness |-> 0, bias_factor |-> 200, bias |-> VZero, p |-> VZero,
             r1 |-> VZero, r2 |-> VZero, m |-> Mat2x2(VZero, VZero)]
    IN  between(FindBody(bodies, id_1), FindBody(bodies, id_2))

\* Joint::pre_step: the matrix K that is inverted
JointK(joint, body_1, body_2) ==
    LET k1 == Mat2x2(Vec2(body_1.inv_mass + body_2.inv_mass, 0),
                     Vec2(0, body_1.inv_mass + body_2.inv_mass))
        \* the rotational part of one body, r its arm
        kr(inv_moi, r) ==
            Mat2x2(Vec2(FMul(FMul(inv_moi, r.y), r.y), FMul(FMul(-inv_moi, r.x), r.y)),
                   Vec2(FMul(FMul(-inv_moi, r.x), r.y), FMul(FMul(inv_moi, r.x), r.x)))
        soft(k) == [k EXCEPT !.col1.x = @ + joint.softness, !.col2.y = @ + joint.softness]
    IN  soft(MAdd(MAdd(k1, kr(body_1.inv_moi,
                               MMulV(new_from_angle(body_1.rotation),
                                     joint.local_anchor_1))),
                  kr(body_2.inv_moi,
                     MMulV(new_from_angle(body_2.rotation), joint.local_anchor_2))))

\* Joint::pre_step panics when both ends are the same cell (the second
\* borrow_mut) and when K has determinant 0 (the assertion of Mat2x2::invert)
JointPreStepPanics(joint, bodies) ==
    \/ joint.body_1 = joint.body_2
    \/ InvertPanics(JointK(joint, bodies[joint.body_1], bodies[joint.body_2]))

\* Joint::pre_step(world_context, inv_dt): the joint and the body list after it
JointPreStep(joint, bodies, world_context, inv_dt) ==
    LET body_1 == bodies[joint.body_1]
        body_2 == bodies[joint.body_2]
        arms(r1, r2) ==
            LET p1 == VAdd(body_1.position, r1)
                p2 == VAdd(body_2.position, r2)
                dp == VSub(p2, p1)
                bias == IF world_context.position_correction
                        THEN VMul(VMul(VMul(dp, inv_dt), joint.bias_factor), -Scale)
                        ELSE VZero
            IN  [joint |-> [joint EXCEPT
                              !.r1 = r1, !.r2 = r2,
                              !.m = invert(JointK(joint, body_1, body_2)),
                              !.bias = bias,
                              !.p = IF world_context.warm_starting THEN @ ELSE VZero],
                 bodies |-> IF world_context.warm_starting
                            THEN [bodies EXCEPT
                                    ![joint.body_1] = SubImpulse(body_1, r1, joint.p),
                                    ![joint.body_2] = AddImpulse(body_2, r2, joint.p)]
                            ELSE bodies]
    IN  arms(MMulV(new_from_angle(body_1.rotation), joint.local_anchor_1),
             MMulV(new_from_angle(body_2.rotation), joint.local_anchor_2))

\* An apply_impulse that does not add the impulse to p
JointApplyImpulseForgetful(joint, bodies) ==
    LET body_1 == bodies[joint.body_1]
        body_2 == bodies[joint.body_2]
        dv == VSub(VSub(VAdd(body_2.velocity, CrossSV(body_2.angular_velocity, joint.r2)),
                        body_1.velocity),
                   CrossSV(body_1.angular_velocity, joint.r1))
        applied(impulse) ==
            [joint |-> joint,
             bodies |-> [bodies EXCEPT
                           ![joint.body_1] = SubImpulse(body_1, joint.r1, impulse),
                           ![joint.body_2] = AddImpulse(body_2, joint.r2, impulse)],
             impulse |-> impulse]
    IN  applied(MMulV(joint.m,
                      VSub(VSub(joint.bias, dv), VMul(joint.p, joint.softness))))

\* Joint::apply_impulse
JointApplyImpulse(joint, bodies) ==
    LET body_1 == bodies[joint.body_1]
        body_2 == bodies[joint.body_2]
        dv == VSub(VSub(VAdd(body_2.velocity, CrossSV(body_2.angular_velocity, joint.r2)),
                        body_1.velocity),
                   CrossSV(body_1.angular_velocity, joint.r1))
        applied(impulse) ==
            [joint |-> [joint EXCEPT !.p = VAdd(joint.p, impulse)],
             bodies |-> [bodies EXCEPT
                           ![joint.body_1] = SubImpulse(body_1, joint.r1, impulse),
                           ![joint.body_2] = AddImpulse(body_2, joint.r2, impulse)],
             impulse |-> impulse]
    IN  applied(MMulV(joint.m,
                      VSub(VSub(joint.bias, dv), VMul(joint.p, joint.softness))))

\* ------------------------------------------------------------ world.rs

VARIABLES
    body_id_counter,  \* BODY_ID_COUNTER (body.rs)
    made,             \* bodies the scene builder has created and not yet added
    bodies,           \* World::bodies
    joints,           \* World::joints
    arbiters,         \* World::arbiters: ArbiterKey -> Arbiter
    arb_order,        \* the order in which the HashMap iterates its keys
    world_context,    \* World::world_context
    gravity,          \* World::gravity
    iterations,       \* World::iterations
    pc,               \* where World::step stands; "idle" between calls
    dt,               \* step's argument
    inv_dt,           \* step's local
    round,            \* solver rounds done in this step
    calls,            \* the calls this step has made so far, in order
    start,            \* the bodies and arbiters as the last step found them
    last_count,       \* per key, the contacts the last broad phase found
    removed,          \* keys a broad phase found an arbiter for and no contact
    steps,            \* step calls made
    nforces,          \* add_force calls made
    cleared_at,       \* BODY_ID_COUNTER when World::clear was last called, 0 if never
    call              \* a library function called on its own: its argument and result

vars == <<body_id_counter, made, bodies, joints, arbiters, arb_order, world_context,
          gravity, iterations, pc, dt, inv_dt, round, calls, start, last_count,
          removed, steps, nforces, cleared_at, call>>

\* Bounds of the model
MaxBodies == 3

MaxMade == 2

MaxJoints == 1

MaxSteps == 3

MaxIterations == 1

MaxForces == 2

MaxToggles == 1

MaxCoord == 20000

MaxSpeed == 50000

\* The scenes' shapes: what the scene builder passes to Body::new / new_polygon
\* and then assigns to position and friction
Triangle == <<Vec2(0, 1000), Vec2(-1000, -500), Vec2(1000, -500)>>

BodySpecs ==
    << [shape |-> "Box", width |-> Vec2(8000, 2000), vertices |-> <<>>,
        mass |-> F32_MAX, position |-> Vec2(0, -1000), friction |-> 500],
       [shape |-> "Box", width |-> Vec2(1000, 1000), vertices |-> <<>>,
        mass |-> 1000, position |-> Vec2(3500, 450), friction |-> 500],
       [shape |-> "Box", width |-> Vec2(1000, 1000), vertices |-> <<>>,
        mass |-> 2000, position |-> Vec2(3300, 1400), friction |-> 200],
       [shape |-> "ConvexPolygon", width |-> VZero, vertices |-> Triangle,
        mass |-> F32_MAX, position |-> Vec2(4600, 500), friction |-> 500] >>

\* Forces the caller adds (the k-th call passes the k-th of them, in turn),
\* time steps it passes, anchors it gives a joint
Forces == <<Vec2(200000, 0), Vec2(-350000, 0)>>

TimeSteps == {100}

Anchors == {Vec2(3500, 1000)}

Gravity == Vec2(0, -10000)

\* The scene builder's body: the constructor, then the field assignments
MakeBody(id, spec) ==
    [(IF spec.shape = "Box"
      THEN BodyNew(id, spec.width, spec.mass)
      ELSE BodyNewPolygon(id, spec.vertices, spec.mass))
     EXCEPT !.position = spec.position, !.friction = spec.friction]

\* World::new: the flags of world_context
WorldContextNew == [accumulate_impulse |-> TRUE, warm_starting |-> FALSE,
                    position_correction |-> TRUE]

\* No library function has been called on its own
NoCall == [op |-> "none", arg |-> <<>>, ret |-> <<>>, done |-> FALSE]

\* World::new(gravity, iterations)
Init ==
    /\ body_id_counter = 1
    /\ made = {}
    /\ bodies = <<>>
    /\ joints = <<>>
    /\ arbiters = <<>>
    /\ arb_order = <<>>
    /\ world_context = WorldContextNew
    /\ gravity = Gravity
    /\ iterations \in 0..MaxIterations
    /\ pc = "idle"
    /\ dt = 0
    /\ inv_dt = 0
    /\ round = 0
    /\ calls = <<>>
    /\ start = [bodies |-> <<>>, joints |-> <<>>, arbiters |-> <<>>, order |-> <<>>,
                 found |-> <<>>, removed |-> {}]
    /\ last_count = <<>>
    /\ removed = {}
    /\ steps = 0
    /\ nforces = 0
    /\ cleared_at = 0
    /\ call = NoCall

\* An entry of `calls`
Call(name, key) == [call |-> name, key |-> key]

\* All orderings of a set of keys
RECURSIVE Orderings(_)
Orderings(S) ==
    IF S = {} THEN {<<>>}
    ELSE UNION {{<<k>> \o o : o \in Orderings(S \ {k})} : k \in S}

\* The subsequence of the elements that are in S
RECURSIVE Restrict(_, _)
Restrict(seq, S) ==
    IF seq = <<>> THEN <<>>
    ELSE IF Head(seq) \in S THEN <<Head(seq)>> \o Restrict(Tail(seq), S)
    ELSE Restrict(Tail(seq), S)

\* A remove that leaves the entry in the map
MapKeep(map, key) == map

\* HashMap::remove
MapRemove(map, key) == [k \in DOMAIN map \ {key} |-> map[k]]

\* The pairs (i, j), i < j, in the order the two loops of broad_phase visit them
PairsFrom(n, i, j) ==
    LET RECURSIVE go(_, _)
        go(a, b) == IF a >= n THEN <<>>
                    ELSE IF b > n THEN go(a + 1, a + 2)
                    ELSE <<<<a, b>>>> \o go(a, b + 1)
    IN  go(i, j)

\* World::broad_phase, the body of the inner loop for the pair (i, j).
\* acc: the arbiter map, whether a panic has ended the call, the keys inserted,
\* the keys whose arbiter was dropped, the contacts found per key.
BroadPhasePair(acc, bodies_, i, j, ctx) ==
    LET body_i == bodies_[i]
        body_j == bodies_[j]
        key == ArbiterKey(body_i, body_j)
        \* `if new_arbiter.num_contacts > 0 { .. } else { self.arbiters.remove(&key) }`
        merged(new_arbiter) ==
            IF new_arbiter.num_contacts > 0
            THEN IF key \in DOMAIN acc.arbiters
                 THEN [acc EXCEPT !.arbiters[key] =
                           ArbiterUpdate(@, new_arbiter.contacts,
                                         new_arbiter.num_contacts, ctx),
                                  !.found = (key :> new_arbiter.num_contacts) @@ @]
                 ELSE [acc EXCEPT !.arbiters = (key :> new_arbiter) @@ @,
                                  !.inserted = @ \cup {key},
                                  !.found = (key :> new_arbiter.num_contacts) @@ @]
            ELSE [acc EXCEPT !.arbiters = MapRemove(@, key),
                             !.removed = IF key \in DOMAIN acc.arbiters
                                         THEN @ \cup {key} ELSE @,
                             !.found = (key :> 0) @@ @]
    IN  IF acc.panic THEN acc
        ELSE IF body_i.inv_mass = 0 /\ body_j.inv_mass = 0 THEN acc
        ELSE IF ArbiterNewPanics(body_i, body_j) THEN [acc EXCEPT !.panic = TRUE]
        ELSE merged(ArbiterNew(bodies_, i, j))

RECURSIVE BroadPhaseLoop(_, _, _, _)
BroadPhaseLoop(acc, bodies_, pairs, ctx) ==
    IF pairs = <<>> THEN acc
    ELSE BroadPhaseLoop(BroadPhasePair(acc, bodies_, Head(pairs)[1], Head(pairs)[2], ctx),
                        bodies_, Tail(pairs), ctx)

\* World::broad_phase
broad_phase(arbiters_, bodies_, ctx) ==
    BroadPhaseLoop([arbiters |-> arbiters_, panic |-> FALSE, inserted |-> {},
                    removed |-> {}, found |-> <<>>],
                   bodies_, PairsFrom(Len(bodies_), 1, 2), ctx)

\* The orders in which the map may iterate after a broad phase: a removal
\* leaves the other keys where they are; an insertion may rehash the table,
\* and where a key lands depends on the map's random hasher state
OrdersAfter(order, bp) ==
    IF bp.inserted = {} THEN {Restrict(order, DOMAIN bp.arbiters)}
    ELSE Orderings(DOMAIN bp.arbiters)

\* A force integration that does not skip the bodies with inv_mass = 0
IntegrateForcesBodyNoSkip(body, gravity_, dt_) ==
    [body EXCEPT
       !.velocity = VAdd(body.velocity,
                         VMul(VAdd(gravity_, VMul(body.force, body.inv_mass)), dt_)),
       !.angular_velocity = body.angular_velocity
                              + FMul(FMul(body.inv_moi, body.torque), dt_)]

\* A force integration that scales gravity by the inverse mass, as if it were a force
IntegrateForcesBodyGravityAsForce(body, gravity_, dt_) ==
    IF body.inv_mass = 0 THEN body
    ELSE [body EXCEPT
            !.velocity = VAdd(body.velocity,
                              VMul(VMul(VAdd(gravity_, body.force), body.inv_mass), dt_)),
            !.angular_velocity = body.angular_velocity
                                   + FMul(FMul(body.inv_moi, body.torque), dt_)]

\* World::step, "Integrate forces"
IntegrateForcesBody(body, gravity_, dt_) ==
    IF body.inv_mass = 0 THEN body
    ELSE [body EXCEPT
            !.velocity = VAdd(body.velocity,
                              VMul(VAdd(gravity_, VMul(body.force, body.inv_mass)), dt_)),
            !.angular_velocity = body.angular_velocity
                                   + FMul(FMul(body.inv_moi, body.torque), dt_)]

integrate_forces(bodies_, gravity_, dt_) ==
    [k \in 1..Len(bodies_) |-> IntegrateForcesBody(bodies_[k], gravity_, dt_)]

\* A velocity integration that moves by the velocity, not by velocity * dt
IntegrateVelocitiesBodyWholeSecond(body, dt_) ==
    [body EXCEPT !.position = VAdd(body.position, body.velocity),
                 !.rotation = body.rotation + body.angular_velocity,
                 !.force = VZero,
                 !.torque = 0]

\* A velocity integration that leaves force and torque as they are
IntegrateVelocitiesBodyKeepForce(body, dt_) ==
    [body EXCEPT !.position = VAdd(body.position, VMul(body.velocity, dt_)),
                 !.rotation = body.rotation + FMul(body.angular_velocity, dt_)]

\* World::step, "Integrate Velocities"
IntegrateVelocitiesBody(body, dt_) ==
    [body EXCEPT !.position = VAdd(body.position, VMul(body.velocity, dt_)),
                 !.rotation = body.rotation + FMul(body.angular_velocity, dt_),
                 !.force = VZero,
                 !.torque = 0]

integrate_velocities(bodies_, dt_) ==
    [k \in 1..Len(bodies_) |-> IntegrateVelocitiesBody(bodies_[k], dt_)]

\* The state the loops of step thread through: w.bodies, w.arbiters, w.joints,
\* w.calls and w.panic

\* `for (_, arbiter) in self.arbiters.iter_mut()`: pre_step (pre) or apply_impulse
RECURSIVE ArbiterLoop(_, _, _, _, _)
ArbiterLoop(w, order, pre, inv_dt_, ctx) ==
    IF order = <<>> THEN w
    ELSE LET key == Head(order)
             name == IF pre THEN "arbiter.pre_step" ELSE "arbiter.apply_impulse"
             next(r) ==
                 ArbiterLoop([w EXCEPT !.arbiters[key] = r.arbiter, !.bodies = r.bodies,
                                       !.calls = Append(@, Call(name, key))],
                             Tail(order), pre, inv_dt_, ctx)
         IN  next(IF pre
                  THEN ArbiterPreStep(w.arbiters[key], w.bodies, inv_dt_, ctx)
                  ELSE ArbiterApplyImpulse(w.arbiters[key], w.bodies, ctx))

\* `for joint in self.joints.iter_mut()`: pre_step (pre) or apply_impulse
RECURSIVE JointLoop(_, _, _, _, _)
JointLoop(w, j, pre, inv_dt_, ctx) ==
    IF j > Len(w.joints) \/ w.panic THEN w
    ELSE IF pre /\ JointPreStepPanics(w.joints[j], w.bodies)
    THEN [w EXCEPT !.panic = TRUE, !.calls = Append(@, Call("joint.pre_step", <<j, 0>>))]
    ELSE LET name == IF pre THEN "joint.pre_step" ELSE "joint.apply_impulse"
             next(r) ==
                 JointLoop([w EXCEPT !.joints[j] = r.joint, !.bodies = r.bodies,
                                     !.calls = Append(@, Call(name, <<j, 0>>))],
                           j + 1, pre, inv_dt_, ctx)
         IN  next(IF pre
                  THEN JointPreStep(w.joints[j], w.bodies, ctx, inv_dt_)
                  ELSE JointApplyImpulse(w.joints[j], w.bodies))

\* World::step, "Perform pre-steps": every arbiter, then every joint
pre_steps(w, order, inv_dt_, ctx) ==
    JointLoop(ArbiterLoop(w, order, TRUE, inv_dt_, ctx), 1, TRUE, inv_dt_, ctx)

\* A round that visits the joints before the arbiters
solver_round_joints_first(w, order, ctx) ==
    ArbiterLoop(JointLoop(w, 1, FALSE, 0, ctx), order, FALSE, 0, ctx)

\* World::step, one round of "Perform iterations": every arbiter, then every joint
solver_round(w, order, ctx) ==
    JointLoop(ArbiterLoop(w, order, FALSE, 0, ctx), 1, FALSE, 0, ctx)

\* The state step's loops thread through, from the variables
World == [bodies |-> bodies, arbiters |-> arbiters, joints |-> joints,
          calls |-> calls, panic |-> FALSE]

\* ---- the scene builder and the caller, between steps

\* The scene is built and configured before the caller's loop starts
Building == pc = "idle" /\ steps = 0 /\ nforces = 0

\* The loop runs on a scene that holds every body made so far
AllAdded == body_id_counter = Len(bodies) + 1

\* The loop stops when a body has left the range the model computes in
InRange ==
    \A k \in 1..Len(bodies) :
        /\ Abs(bodies[k].position.x) <= MaxCoord
        /\ Abs(bodies[k].position.y) <= MaxCoord
        /\ Abs(bodies[k].velocity.x) <= MaxSpeed
        /\ Abs(bodies[k].velocity.y) <= MaxSpeed
        /\ Abs(bodies[k].angular_velocity) <= MaxSpeed

\* The builder makes the shapes of BodySpecs in their order, skipping any
LaterShape(n) ==
    \A b \in made \cup {bodies[k] : k \in 1..Len(bodies)} :
        \A m \in n..Len(BodySpecs) :
            ~(b.shape = BodySpecs[m].shape /\ b.mass = BodySpecs[m].mass)

\* Body::new / Body::new_polygon: BODY_ID_COUNTER.fetch_add(1)
CreateBody(n) ==
    /\ Building
    /\ LaterShape(n)
    /\ body_id_counter <= MaxBodies
    /\ Cardinality(made) < MaxMade
    /\ made' = made \cup {MakeBody(body_id_counter, BodySpecs[n])}
    /\ body_id_counter' = body_id_counter + 1
    /\ UNCHANGED <<bodies, joints, arbiters, arb_order, world_context, gravity,
                   iterations, pc, dt, inv_dt, round, calls, start, last_count,
                   removed, steps, nforces,
                   cleared_at, call>>

\* World::add_body
AddBody(body) ==
    /\ Building
    /\ body \in made
    /\ bodies' = Append(bodies, body)
    /\ made' = made \ {body}
    /\ UNCHANGED <<body_id_counter, joints, arbiters, arb_order, world_context,
                   gravity, iterations, pc, dt, inv_dt, round, calls, start,
                   last_count, removed, steps, nforces,
                   cleared_at, call>>

\* Joint::new and World::add_joint
AddJoint(id_1, id_2, anchor) ==
    /\ Building
    /\ Len(joints) < MaxJoints
    /\ FindBody(bodies, id_1) > 0
    /\ FindBody(bodies, id_2) > 0
    /\ joints' = Append(joints, JointNew(bodies, id_1, id_2, anchor))
    /\ UNCHANGED <<body_id_counter, made, bodies, arbiters, arb_order, world_context,
                   gravity, iterations, pc, dt, inv_dt, round, calls, start,
                   last_count, removed, steps, nforces,
                   cleared_at, call>>

\* Body::add_force on a body of the world
AddForce(k) ==
    /\ pc = "idle"
    /\ AllAdded
    /\ nforces < MaxForces
    /\ k \in 1..Len(bodies)
    /\ bodies[k].force = VZero
    /\ bodies' = [bodies EXCEPT ![k] = add_force(@, Forces[(nforces % Len(Forces)) + 1])]
    /\ nforces' = nforces + 1
    /\ UNCHANGED <<body_id_counter, made, joints, arbiters, arb_order, world_context,
                   gravity, iterations, pc, dt, inv_dt, round, calls, start,
                   last_count, removed, steps,
                   cleared_at, call>>

\* The caller flips one of the flags of world_context
Toggle(flag) ==
    /\ Building
    /\ world_context' = [world_context EXCEPT ![flag] = ~@]
    /\ Cardinality({f \in DOMAIN world_context :
                        world_context'[f] # WorldContextNew[f]}) <= MaxToggles
    /\ UNCHANGED <<body_id_counter, made, bodies, joints, arbiters, arb_order,
                   gravity, iterations, pc, dt, inv_dt, round, calls, start,
                   last_count, removed, steps, nforces,
                   cleared_at, call>>

\* A clear that starts the ids over
ClearAndRestartIds ==
    /\ Building
    /\ Len(bodies) > 0
    /\ bodies' = <<>>
    /\ joints' = <<>>
    /\ arbiters' = <<>>
    /\ arb_order' = <<>>
    /\ cleared_at' = body_id_counter
    /\ body_id_counter' = 1
    /\ UNCHANGED <<made, world_context, gravity, iterations, pc,
                   dt, inv_dt, round, calls, start, last_count, removed, steps,
                   nforces, call>>

\* World::clear
Clear ==
    /\ Building
    /\ Len(bodies) > 0
    /\ bodies' = <<>>
    /\ joints' = <<>>
    /\ arbiters' = <<>>
    /\ arb_order' = <<>>
    /\ cleared_at' = body_id_counter
    /\ UNCHANGED <<body_id_counter, made, world_context, gravity, iterations, pc,
                   dt, inv_dt, round, calls, start, last_count, removed, steps,
                   nforces, call>>

\* ---- World::step(dt), phase by phase

\* let inv_dt = if dt > 0.0 { 1.0 / dt } else { 0.0 };
InvDt(dt_) == IF dt_ > 0 THEN FDiv(Scale, dt_) ELSE 0

StepBegin(dt_) ==
    /\ pc = "idle"
    /\ steps < MaxSteps
    /\ AllAdded
    /\ InRange
    /\ dt' = dt_
    /\ inv_dt' = InvDt(dt_)
    /\ round' = 0
    /\ calls' = <<>>
    /\ start' = [bodies |-> bodies, joints |-> joints, arbiters |-> arbiters,
                 order |-> arb_order, found |-> last_count, removed |-> removed]
    /\ pc' = "broad_phase"
    /\ steps' = steps + 1
    /\ UNCHANGED <<body_id_counter, made, bodies, joints, arbiters, arb_order,
                   world_context, gravity, iterations, last_count, removed,
                   nforces,
                   cleared_at, call>>

BroadPhase ==
    /\ pc = "broad_phase"
    /\ \E bp \in {broad_phase(arbiters, bodies, world_context)} :
           /\ arbiters' = bp.arbiters
           /\ arb_order' \in OrdersAfter(arb_order, bp)
           /\ last_count' = bp.found
           /\ removed' = removed \cup bp.removed
           /\ calls' = Append(calls, Call("broad_phase", <<0, 0>>))
           /\ pc' = IF bp.panic THEN "panicked" ELSE "integrate_forces"
    /\ UNCHANGED <<body_id_counter, made, bodies, joints, world_context, gravity,
                   iterations, dt, inv_dt, round, start, steps, nforces,
                   cleared_at, call>>

IntegrateForces ==
    /\ pc = "integrate_forces"
    /\ bodies' = integrate_forces(bodies, gravity, dt)
    /\ calls' = Append(calls, Call("integrate_forces", <<0, 0>>))
    /\ pc' = "pre_step"
    /\ UNCHANGED <<body_id_counter, made, joints, arbiters, arb_order, world_context,
                   gravity, iterations, dt, inv_dt, round, start, last_count,
                   removed, steps, nforces,
                   cleared_at, call>>

PreStep ==
    /\ pc = "pre_step"
    /\ \E w \in {pre_steps(World, arb_order, inv_dt, world_context)} :
           /\ bodies' = w.bodies
           /\ arbiters' = w.arbiters
           /\ joints' = w.joints
           /\ calls' = w.calls
           /\ pc' = IF w.panic THEN "panicked" ELSE "iterate"
    /\ UNCHANGED <<body_id_counter, made, arb_order, world_context, gravity,
                   iterations, dt, inv_dt, round, start, last_count, removed,
                   steps, nforces,
                   cleared_at, call>>

\* for _ in 0..self.iterations
Iterate ==
    /\ pc = "iterate"
    /\ round < iterations
    /\ \E w \in {solver_round(World, arb_order, world_context)} :
           /\ bodies' = w.bodies
           /\ arbiters' = w.arbiters
           /\ joints' = w.joints
           /\ calls' = w.calls
    /\ round' = round + 1
    /\ UNCHANGED <<body_id_counter, made, arb_order, world_context, gravity,
                   iterations, pc, dt, inv_dt, start, last_count, removed,
                   steps, nforces,
                   cleared_at, call>>

IntegrateVelocities ==
    /\ pc = "iterate"
    /\ round >= iterations
    /\ bodies' = integrate_velocities(bodies, dt)
    /\ calls' = Append(calls, Call("integrate_velocities", <<0, 0>>))
    /\ pc' = "idle"
    /\ UNCHANGED <<body_id_counter, made, joints, arbiters, arb_order, world_context,
                   gravity, iterations, dt, inv_dt, round, start, last_count,
                   removed, steps, nforces,
                   cleared_at, call>>

Next ==
    \/ \E n \in 1..Len(BodySpecs) : CreateBody(n)
    \/ \E body \in made : AddBody(body)
    \/ \E i, j \in 1..Len(bodies), a \in Anchors :
          i < j /\ AddJoint(bodies[i].id, bodies[j].id, a)
    \/ AddForce(Len(bodies))
    \/ \E flag \in {"accumulate_impulse", "warm_starting", "position_correction"} :
          Toggle(flag)
    \/ Clear
    \/ \E d \in TimeSteps : StepBegin(d)
    \/ BroadPhase
    \/ IntegrateForces
    \/ PreStep
    \/ Iterate
    \/ IntegrateVelocities

Spec == Init /\ [][Next]_vars

\* ------------------------------------------------------------ direct calls

\* The library's functions as a test or a demo calls them on their own: the
\* world is as World::new left it; `call` holds the function, its argument
\* and, once it has returned, its result.

world_vars == <<body_id_counter, made, bodies, joints, arbiters, arb_order,
                world_context, gravity, iterations, pc, dt, inv_dt, round, calls,
                start, last_count, removed, steps, nforces, cleared_at>>

\* A call that has not returned yet
Pending(op, arg) == [op |-> op, arg |-> arg, ret |-> <<>>, done |-> FALSE]

\* The call of `op` returns `ret`
Returns(op, ret) ==
    /\ call.op = op
    /\ ~call.done
    /\ call' = [call EXCEPT !.ret = ret, !.done = TRUE]
    /\ UNCHANGED world_vars

\* The call of `op` has returned
Returned(op) == call.op = op /\ call.done

\* Bounds of the arguments
MaxDtSteps == 4

\* Time steps passed to World::step: multiples of 0.05, of either sign, and 0
DtArgs == {50 * k : k \in -MaxDtSteps..MaxDtSteps}

\* World::step(dt), its first statement
CallInvDt == Returns("inv_dt", InvDt(call.arg))

MaxEntry == 2

\* Matrices with whole entries from -1 to MaxEntry
MatrixArgs ==
    {Mat2x2(Vec2(1000 * a, 1000 * c), Vec2(1000 * b, 1000 * d)) :
        a \in -1..MaxEntry, b \in -1..MaxEntry, c \in -1..MaxEntry, d \in -1..MaxEntry}

\* How a call ends: with a value, or in a panic that unwinds the caller
Ok(value) == [kind |-> "Ok", value |-> value]

Panic(message) == [kind |-> "Panic", value |-> message]

\* m.invert(), the assertion included
InvertOutcome(m) ==
    IF InvertPanics(m)
    THEN Panic("Can't invert Matrix with 0 determinant.")
    ELSE Ok(invert(m))

CallInvert == Returns("invert", InvertOutcome(call.arg))

\* Masses passed to the constructors: negative, zero, finite and the sentinel
MassArgs == {-1000, 0, 1000, 2000, F32_MAX}

WidthArgs == {Vec2(1000, 1000), Vec2(8000, 2000)}

MaxPolygonScale == 2

\* A convex quadrilateral, counter-clockwise
Quad == <<Vec2(1000, 0), Vec2(0, 1000), Vec2(-1000, 0), Vec2(0, -500)>>

ScaledBy(vs, k) == [n \in 1..Len(vs) |-> Vec2(k * vs[n].x, k * vs[n].y)]

\* Vertex lists passed to Body::new_polygon: the empty list and convex
\* polygons in both windings
VertexArgs ==
    {<<>>}
    \cup {ScaledBy(vs, k) : vs \in {Triangle, Quad}, k \in 1..MaxPolygonScale}
    \cup {Reverse(ScaledBy(vs, k)) : vs \in {Triangle, Quad}, k \in 1..MaxPolygonScale}

MaxQuarterTurns == 4

\* Angles that are whole multiples of 90 degrees, as test_mat passes PI / 2
AngleArgs == {k * HALF_PI : k \in -MaxQuarterTurns..MaxQuarterTurns}

\* Mat2x2::new_from_angle(angle)
CallNewFromAngle == Returns("new_from_angle", new_from_angle(call.arg))

MaxEighthTurns == 8

\* Angles that are whole multiples of 45 degrees, as test_mat_ops passes PI / 4
EighthTurnArgs == {k * (HALF_PI \div 2) : k \in -MaxEighthTurns..MaxEighthTurns}

\* test_mat, test_mat_ops: the rotation of an angle inverted, transposed,
\* built from the negated angle and multiplied by the latter
RotationRoundTrip(angle) ==
    LET with(rotation, negative) ==
            [inverse |-> InvertOutcome(rotation), transposed |-> transpose(rotation),
             negative |-> negative, product |-> MMulM(rotation, negative)]
    IN  with(new_from_angle(angle), new_from_angle(-angle))

CallRotationRoundTrip == Returns("rotation round trip", RotationRoundTrip(call.arg))

MaxFeature == 1

\* The contact slots of an arbiter that has been solved: empty, or a contact
\* with a feature value and accumulated impulses
OldSlotArgs ==
    {None} \cup
    {Some([ContactInfo(Vec2(500, 0), Vec2(0, 1000), -10, FeaturePair(EdgesDefault, v))
             EXCEPT !.pn = pn, !.pt = pn \div 2, !.pnb = pn]) :
        v \in 0..MaxFeature, pn \in {0, 400}}

\* The contact slots the narrow phase hands over: impulses at zero
NewSlotArgs ==
    {None} \cup
    {Some(ContactInfo(Vec2(520, 0), Vec2(0, 1000), -20, FeaturePair(EdgesDefault, v))) :
        v \in 0..MaxFeature}

UpTo2(S) == {<<a>> : a \in S} \cup {<<a, b>> : a \in S, b \in S}

UpdateArgs ==
    {[arbiter |-> [body1 |-> 1, body2 |-> 2, friction |-> 500,
                   num_contacts |-> Len(old), contacts |-> old],
      new_contacts |-> new,
      world_context |-> [WorldContextNew EXCEPT !.warm_starting = warm]] :
        old \in UpTo2(OldSlotArgs), new \in UpTo2(NewSlotArgs), warm \in BOOLEAN}

\* Arbiter::update(new_contacts, num_new_contacts, world_context): the Result
\* and the arbiter it leaves
CallUpdate ==
    Returns("Arbiter::update",
            [result |-> UpdateResult(call.arg.arbiter, call.arg.new_contacts),
             arbiter |-> ArbiterUpdate(call.arg.arbiter, call.arg.new_contacts,
                                       Len(call.arg.new_contacts),
                                       call.arg.world_context)])

MaxOffset == 6

\* Offsets between the centres of two boxes: multiples of 0.25
OffsetArgs == {250 * k : k \in -MaxOffset..MaxOffset}

BoxWidthArgs == {Vec2(1000, 1000), Vec2(2000, 1000)}

BoxCentreArgs == {Vec2(0, 0), Vec2(3300, 1400)}

\* A box as the tests of collide.rs build one: a Body with its fields set
BoxAt(width, position, rotation) ==
    [BodyNew(1, width, 1000) EXCEPT !.position = position, !.rotation = rotation,
                                    !.friction = 500]

\* Pairs of axis-aligned boxes
BoxPairArgs ==
    {[a |-> BoxAt(wa, c, 0), b |-> BoxAt(wb, VAdd(c, Vec2(dx, dy)), 0)] :
        wa \in BoxWidthArgs, wb \in BoxWidthArgs, c \in BoxCentreArgs,
        dx \in OffsetArgs, dy \in OffsetArgs}

\* collide(&mut contacts, body_a, body_b): the contacts pushed; their number
\* is the value returned
CallCollide == Returns("collide", collide(call.arg.a, call.arg.b))

\* Convex vertex lists in both windings, and the offsets between two bodies
ShapeArgs == VertexArgs \ {<<>>}

PolygonOffsetArgs == {o \in OffsetArgs : o % 500 = 0}

\* A polygon body as the tests build one: new_polygon, then the position set
PolygonAt(vertices, position) ==
    [BodyNewPolygon(1, vertices, 1000) EXCEPT !.position = position]

\* Pairs of bodies of which at least one is a convex polygon
PolygonPairArgs ==
    {[b1 |-> PolygonAt(v1, VZero), b2 |-> PolygonAt(v2, Vec2(dx, dy))] :
        v1 \in ShapeArgs, v2 \in ShapeArgs,
        dx \in PolygonOffsetArgs, dy \in PolygonOffsetArgs}
    \cup {[b1 |-> BoxAt(w, VZero, 0), b2 |-> PolygonAt(v2, Vec2(dx, dy))] :
        w \in BoxWidthArgs, v2 \in ShapeArgs,
        dx \in PolygonOffsetArgs, dy \in PolygonOffsetArgs}

\* collide_polygons(&mut contacts, b1, b2) with `contacts` empty: the contacts
\* left in it; their number is the value returned
CallCollidePolygons == Returns("collide_polygons", collide_polygons(call.arg.b1, call.arg.b2))

MaxIndex == 7

IndexArgs == -MaxIndex..MaxIndex

\* get_vertex(i) on a polygon of these vertices: the vertex, or the panic of
\* an index that went negative and, as usize, is out of bounds
GetVertexOutcome(vs, i) ==
    IF VertexIndex(vs, i) < 0
    THEN Panic("index out of bounds")
    ELSE Ok(get_vertex(vs, i))

\* get_edge(i): get_vertex(i), then get_vertex(i + 1)
GetEdgeOutcome(vs, i) ==
    IF VertexIndex(vs, i) < 0 \/ VertexIndex(vs, i + 1) < 0
    THEN Panic("index out of bounds")
    ELSE Ok(get_edge(vs, i))

\* ConvexPolygon::new(vertices), then get_vertex(i) and get_edge(i)
CallGetVertex ==
    Returns("get_vertex", [vertex |-> GetVertexOutcome(call.arg.vertices, call.arg.i),
                           edge |-> GetEdgeOutcome(call.arg.vertices, call.arg.i)])

\* A constructor's call: it draws the id from BODY_ID_COUNTER
Constructs(op, body) ==
    /\ call.op = op
    /\ ~call.done
    /\ call' = [call EXCEPT !.ret = Ok(body), !.done = TRUE]
    /\ body_id_counter' = body_id_counter + 1
    /\ UNCHANGED <<made, bodies, joints, arbiters, arb_order, world_context, gravity,
                   iterations, pc, dt, inv_dt, round, calls, start, last_count,
                   removed, steps, nforces, cleared_at>>

\* Body::new(width, mass)
CallBodyNew ==
    Constructs("Body::new", BodyNew(body_id_counter, call.arg.width, call.arg.mass))

\* Body::new_polygon(vertices, mass)
CallBodyNewPolygon ==
    Constructs("Body::new_polygon",
               BodyNewPolygon(body_id_counter, call.arg.vertices, call.arg.mass))

CallInit ==
    /\ body_id_counter = 1
    /\ made = {}
    /\ bodies = <<>>
    /\ joints = <<>>
    /\ arbiters = <<>>
    /\ arb_order = <<>>
    /\ world_context = WorldContextNew
    /\ gravity = Gravity
    /\ iterations = 0
    /\ pc = "idle"
    /\ dt = 0
    /\ inv_dt = 0
    /\ round = 0
    /\ calls = <<>>
    /\ start = [bodies |-> <<>>, joints |-> <<>>, arbiters |-> <<>>, order |-> <<>>,
                 found |-> <<>>, removed |-> {}]
    /\ last_count = <<>>
    /\ removed = {}
    /\ steps = 0
    /\ nforces = 0
    /\ cleared_at = 0
    /\ \/ call \in {Pending("inv_dt", d) : d \in DtArgs}
       \/ call \in {Pending("invert", m) : m \in MatrixArgs}
       \/ call \in {Pending("new_from_angle", angle) : angle \in AngleArgs}
       \/ call \in {Pending("rotation round trip", angle) : angle \in EighthTurnArgs}
       \/ call \in {Pending("Arbiter::update", a) : a \in UpdateArgs}
       \/ call \in {Pending("collide", pair) : pair \in BoxPairArgs}
       \/ call \in {Pending("collide_polygons", pair) : pair \in PolygonPairArgs}
       \/ call \in {Pending("get_vertex", [vertices |-> vs, i |-> i]) :
                        vs \in ShapeArgs, i \in IndexArgs}
       \/ call \in {Pending("Body::new", [width |-> w, mass |-> m]) :
                       w \in WidthArgs, m \in MassArgs}
       \/ call \in {Pending("Body::new_polygon", [vertices |-> vs, mass |-> m]) :
                       vs \in VertexArgs, m \in MassArgs}

CallNext ==
    \/ CallInvDt
    \/ CallInvert
    \/ CallNewFromAngle
    \/ CallRotationRoundTrip
    \/ CallUpdate
    \/ CallCollide
    \/ CallCollidePolygons
    \/ CallGetVertex
    \/ CallBodyNew
    \/ CallBodyNewPolygon

CallSpec == CallInit /\ [][CallNext]_vars

\* ------------------------------------------------------------ a body in free flight

\* One body of finite mass, alone in a world whose three flags are disabled,
\* stepped with one time step: `call` keeps the body as it was built and the
\* time step

HeightArgs == {0, 5000}

VelocityArgs == {Vec2(0, -2000), Vec2(0, 0), Vec2(1000, 1000)}

FiniteMassArgs == {1000, 2000}

GravityArgs == {Gravity, Vec2(0, -5000)}

FallTimeSteps == {50, 100}

FreeBody(y0, v0, mass) ==
    [BodyNew(1, Vec2(1000, 1000), mass) EXCEPT !.position = Vec2(0, y0), !.velocity = v0]

FallInit ==
    /\ \E y0 \in HeightArgs, v0 \in VelocityArgs, mass \in FiniteMassArgs,
          d \in FallTimeSteps :
          /\ bodies = <<FreeBody(y0, v0, mass)>>
          /\ call = Pending("World::step", [body |-> FreeBody(y0, v0, mass), dt |-> d])
    /\ body_id_counter = 2
    /\ made = {}
    /\ joints = <<>>
    /\ arbiters = <<>>
    /\ arb_order = <<>>
    /\ world_context = [accumulate_impulse |-> FALSE, warm_starting |-> FALSE,
                        position_correction |-> FALSE]
    /\ gravity \in GravityArgs
    /\ iterations \in 0..MaxIterations
    /\ pc = "idle"
    /\ dt = 0
    /\ inv_dt = 0
    /\ round = 0
    /\ calls = <<>>
    /\ start = [bodies |-> <<>>, joints |-> <<>>, arbiters |-> <<>>, order |-> <<>>,
                 found |-> <<>>, removed |-> {}]
    /\ last_count = <<>>
    /\ removed = {}
    /\ steps = 0
    /\ nforces = 0
    /\ cleared_at = 0

FallNext ==
    \/ StepBegin(call.arg.dt)
    \/ BroadPhase
    \/ IntegrateForces
    \/ PreStep
    \/ Iterate
    \/ IntegrateVelocities

FallSpec == FallInit /\ [][FallNext]_vars

\* ------------------------------------------------------------ properties

\* The calls of one kind that a loop over the keys makes, in order
CallsOf(name, keys) == [n \in 1..Len(keys) |-> Call(name, keys[n])]

JointCalls(name) == [j \in 1..Len(joints) |-> Call(name, <<j, 0>>)]

RECURSIVE Repeat(_, _)
Repeat(seq, n) == IF n = 0 THEN <<>> ELSE seq \o Repeat(seq, n - 1)

ExpectedCalls ==
    <<Call("broad_phase", <<0, 0>>), Call("integrate_forces", <<0, 0>>)>>
    \o CallsOf("arbiter.pre_step", arb_order) \o JointCalls("joint.pre_step")
    \o Repeat(CallsOf("arbiter.apply_impulse", arb_order)
              \o JointCalls("joint.apply_impulse"), iterations)
    \o <<Call("integrate_velocities", <<0, 0>>)>>

StepDone == pc = "idle" /\ steps > 0

\* C1: a step that returns has made its calls in this order: broad phase, force
\* integration, pre_step of every arbiter then of every joint, `iterations`
\* rounds of apply_impulse over every arbiter then every joint, velocity
\* integration; with iterations = 0 no apply_impulse is called.
C1_PhaseOrder == StepDone => calls = ExpectedCalls

C1_Witness ==
    /\ StepDone
    /\ iterations > 0
    /\ arb_order # <<>>
    /\ joints # <<>>
    /\ calls = ExpectedCalls

\* The pairs of the body list that broad_phase visits
BodyPairs == {p \in (1..Len(start.bodies)) \X (1..Len(start.bodies)) : p[1] < p[2]}

BothStatic(p) == start.bodies[p[1]].inv_mass = 0 /\ start.bodies[p[2]].inv_mass = 0

PairKey(p) == ArbiterKey(start.bodies[p[1]], start.bodies[p[2]])

\* The contacts the narrow phase returns for the pair on the bodies as the step found them
NarrowPhase(p) == ArbiterNew(start.bodies, p[1], p[2]).num_contacts

AfterBroadPhase == pc = "integrate_forces"

\* C2: when broad_phase has returned, a pair that is not static-static has an
\* arbiter exactly if the narrow phase on the start-of-step bodies returned at
\* least one contact (so an arbiter is gone at the first step with no contact),
\* a static-static pair has none, and the map holds no other key.
C2_ArbiterIffContact ==
    AfterBroadPhase =>
        /\ \A p \in BodyPairs :
              PairKey(p) \in DOMAIN arbiters <=> (~BothStatic(p) /\ NarrowPhase(p) > 0)
        /\ DOMAIN arbiters \subseteq {PairKey(p) : p \in BodyPairs}

C2_Witness ==
    /\ AfterBroadPhase
    /\ \E p \in BodyPairs : /\ PairKey(p) \in DOMAIN start.arbiters
                             /\ PairKey(p) \notin DOMAIN arbiters
                             /\ NarrowPhase(p) = 0
    /\ \E p \in BodyPairs : BothStatic(p)

\* Every contact of the arbiter has its accumulated impulses at zero
ZeroImpulses(arbiter) ==
    \A n \in 1..Len(arbiter.contacts) :
        IsSome(arbiter.contacts[n]) =>
            LET c == Unwrap(arbiter.contacts[n])
            IN  c.pn = 0 /\ c.pt = 0 /\ c.pnb = 0

\* The pair had no contact (or was not looked at) in the broad phase before this one
NoContactBefore(key) == key \notin DOMAIN start.found \/ start.found[key] = 0

\* C3: an arbiter that the broad phase holds for a pair which had no contact
\* in the step before is a fresh one: all its contacts have pn = pt = pnb = 0,
\* with warm_starting enabled too; the impulses of the arbiter the pair had
\* before it separated are gone.
C3_RemovalForgetsImpulses ==
    AfterBroadPhase =>
        \A key \in DOMAIN arbiters : NoContactBefore(key) => ZeroImpulses(arbiters[key])

C3_Witness ==
    /\ AfterBroadPhase
    /\ world_context.warm_starting
    /\ iterations > 0
    /\ \E key \in DOMAIN arbiters : /\ key \in removed
                                    /\ key \in DOMAIN start.found
                                    /\ start.found[key] = 0
                                    /\ ZeroImpulses(arbiters[key])

\* The contacts of a manifold that are there
Present(contacts) ==
    LET IsThere(c) == IsSome(c)
    IN  [n \in 1..Len(SelectSeq(contacts, IsThere)) |->
            Unwrap(SelectSeq(contacts, IsThere)[n])]

\* The pair of the body list that has this key
PairOf(key) == CHOOSE p \in BodyPairs : PairKey(p) = key

\* The arbiters that Arbiter::update has just been called on
Updated == DOMAIN arbiters \cap DOMAIN start.arbiters

SameImpulses(c, o) == c.pn = o.pn /\ c.pt = o.pt /\ c.pnb = o.pnb

\* What update must have left in contact c, given the manifold it replaced
MergedFrom(c, old) ==
    LET same == {j \in 1..Len(old) : old[j].feature.value = c.feature.value}
    IN  same # {} =>
            IF world_context.warm_starting
            THEN \E j \in same : SameImpulses(c, old[j])
            ELSE c.pn = 0 /\ c.pt = 0 /\ c.pnb = 0

\* C4: after Arbiter::update the manifold is the new one (count, position,
\* normal, separation and feature of every contact are the narrow phase's), and
\* a new contact whose feature value equals that of an old contact has the pn,
\* pt and pnb of such an old contact when warm_starting is on, and zeros when
\* it is off.
C4_UpdateMerges ==
    AfterBroadPhase =>
        \A key \in Updated :
            LET fresh == ArbiterNew(start.bodies, PairOf(key)[1], PairOf(key)[2])
                new == Present(fresh.contacts)
                old == Present(start.arbiters[key].contacts)
                now == Present(arbiters[key].contacts)
            IN  /\ arbiters[key].num_contacts = fresh.num_contacts
                /\ Len(now) = Len(new)
                /\ \A n \in 1..Len(now) :
                      /\ now[n].position = new[n].position
                      /\ now[n].normal = new[n].normal
                      /\ now[n].separation = new[n].separation
                      /\ now[n].feature = new[n].feature
                      /\ MergedFrom(now[n], old)

C4_Witness ==
    /\ AfterBroadPhase
    /\ world_context.warm_starting
    /\ \E key \in Updated :
          /\ Present(start.arbiters[key].contacts) # <<>>
          /\ \E n \in 1..Len(Present(arbiters[key].contacts)) :
                Present(arbiters[key].contacts)[n].pn # 0

BoxBox(key) ==
    /\ start.bodies[PairOf(key)[1]].shape = "Box"
    /\ start.bodies[PairOf(key)[2]].shape = "Box"

\* C5: with warm_starting on, a box-box contact of the updated manifold whose
\* Edges are those of no contact of the manifold it replaced starts the step
\* with pn = pt = pnb = 0.
C5_NewEdgesStartCold ==
    (AfterBroadPhase /\ world_context.warm_starting) =>
        \A key \in Updated :
            BoxBox(key) =>
                LET old == Present(start.arbiters[key].contacts)
                    now == Present(arbiters[key].contacts)
                IN  \A n \in 1..Len(now) :
                        (\A j \in 1..Len(old) :
                             old[j].feature.edges # now[n].feature.edges)
                        => (now[n].pn = 0 /\ now[n].pt = 0 /\ now[n].pnb = 0)

\* C6: no step aborts, whatever bodies the world holds and in whatever order
\* they were added.
C6_StepNeverPanics == pc # "panicked"

\* What is left of the step after the broad phase, were the map to iterate in
\* the given order
RECURSIVE Rounds(_, _, _)
Rounds(w, order, n) ==
    IF n = 0 THEN w ELSE Rounds(solver_round(w, order, world_context), order, n - 1)

StepRest(order) ==
    LET w0 == [World EXCEPT !.bodies = integrate_forces(bodies, gravity, dt)]
        w1 == Rounds(pre_steps(w0, order, inv_dt, world_context), order, iterations)
    IN  [bodies |-> integrate_velocities(w1.bodies, dt),
         joints |-> w1.joints,
         arbiters |-> w1.arbiters]

\* C7: the outcome of a step is a function of the bodies, joints, arbiters,
\* flags and dt: whatever order the arbiter map iterates in, the step ends in
\* the same state.
C7_StepDeterministic ==
    AfterBroadPhase =>
        \A o1, o2 \in Orderings(DOMAIN arbiters) : StepRest(o1) = StepRest(o2)

\* C8: when step returns every body, static or not, has force = (0, 0) and
\* torque = 0; and a body that has no force when a step integrates forces gets
\* gravity alone, whatever force an earlier step saw on it.
C8_ForcesCleared ==
    [][/\ (pc = "iterate" /\ pc' = "idle") =>
            \A k \in 1..Len(bodies') :
                bodies'[k].force = VZero /\ bodies'[k].torque = 0
       /\ (pc = "integrate_forces" /\ pc' = "pre_step") =>
            \A k \in 1..Len(bodies) :
                (bodies[k].inv_mass # 0 /\ bodies[k].force = VZero) =>
                    bodies'[k].velocity = VAdd(bodies[k].velocity, VMul(gravity, dt))]_vars

C8_Witness ==
    /\ StepDone
    /\ steps > 1
    /\ nforces > 0
    /\ \E k \in 1..Len(bodies) : /\ bodies[k].inv_mass = 0
                                  /\ start.bodies[k].force # VZero
                                  /\ bodies[k].force = VZero
    /\ \E k \in 1..Len(bodies) : /\ bodies[k].inv_mass # 0
                                  /\ bodies[k].force = VZero

\* The bodies there are: those the builder holds and those of the world
AllBodies == made \cup {bodies[k] : k \in 1..Len(bodies)}

SentinelMeansStatic ==
    \A b \in AllBodies : b.mass = F32_MAX => (b.inv_mass = 0 /\ b.inv_moi = 0)

\* C9: a body made with mass f32::MAX has inv_mass = 0 and inv_moi = 0 in
\* every state, and no part of step changes the mass, inv_mass, moi or inv_moi
\* of a body.
C9_MassFieldsFixed ==
    [][/\ SentinelMeansStatic
       /\ SentinelMeansStatic'
       /\ pc # "idle" =>
            /\ Len(bodies') = Len(bodies)
            /\ \A k \in 1..Len(bodies) :
                  /\ bodies'[k].mass = bodies[k].mass
                  /\ bodies'[k].inv_mass = bodies[k].inv_mass
                  /\ bodies'[k].moi = bodies[k].moi
                  /\ bodies'[k].inv_moi = bodies[k].inv_moi]_vars

C9_Witness ==
    /\ StepDone
    /\ arbiters # <<>>
    /\ \E k \in 1..Len(bodies) : bodies[k].shape = "Box" /\ bodies[k].mass = F32_MAX
    /\ \E k \in 1..Len(bodies) :
          bodies[k].shape = "ConvexPolygon" /\ bodies[k].mass = F32_MAX
    /\ SentinelMeansStatic

\* Every id there is was handed out by the counter, once
IdsIssuedOnce ==
    /\ \A b \in AllBodies : b.id >= 1 /\ b.id < body_id_counter
    /\ \A b1, b2 \in made : b1.id = b2.id => b1 = b2
    /\ \A k \in 1..Len(bodies) : \A b \in made : bodies[k].id # b.id
    /\ \A k1, k2 \in 1..Len(bodies) : bodies[k1].id = bodies[k2].id => k1 = k2

\* C10: a constructor hands out the counter's value and moves the counter past
\* it, the counter never goes back (World::clear leaves it), so a new id is
\* greater than every id handed out before, no two bodies share an id, and an
\* id from before a clear does not come again.
C10_IdsIncrease ==
    [][/\ body_id_counter' >= body_id_counter
       /\ \A b \in made' \ made :
             /\ b.id = body_id_counter
             /\ body_id_counter' = b.id + 1
             /\ \A o \in AllBodies : o.id < b.id
       /\ IdsIssuedOnce']_vars

C10_Witness ==
    /\ cleared_at > 1
    /\ \E b \in AllBodies : b.id >= cleared_at
    /\ IdsIssuedOnce

\* The two ids of a key, as a set
IdsOf(key) == {key[1], key[2]}

\* C11: ArbiterKey::new gives the same key for (a, b) and (b, a), whatever two
\* bodies there are; every arbiter of the map sits under the key of its two
\* bodies, and no two keys of the map name the same unordered pair of ids.
C11_OneArbiterPerPair ==
    /\ \A a, b \in AllBodies : ArbiterKey(a, b) = ArbiterKey(b, a)
    /\ \A key \in DOMAIN arbiters :
          /\ key = ArbiterKey(bodies[arbiters[key].body1], bodies[arbiters[key].body2])
          /\ key = ArbiterKey(bodies[arbiters[key].body2], bodies[arbiters[key].body1])
    /\ \A k1, k2 \in DOMAIN arbiters : IdsOf(k1) = IdsOf(k2) => k1 = k2

C11_Witness ==
    /\ Len(bodies) >= 3
    /\ Cardinality(DOMAIN arbiters) >= 2
    /\ \E a, b \in AllBodies : a.id > b.id /\ ArbiterKey(a, b) = <<b.id, a.id>>
    /\ \E k1, k2 \in DOMAIN arbiters : k1 # k2 /\ IdsOf(k1) \cap IdsOf(k2) # {}

\* C12: the inv_dt that World::step computes is 1/dt for every dt other than
\* 0, negative ones too, and 0 for dt = 0.
C12_InvDtIsReciprocal ==
    Returned("inv_dt") =>
        call.ret = IF call.arg = 0 THEN 0 ELSE FDiv(Scale, call.arg)

\* C13: Mat2x2::invert of a matrix with determinant 0 returns the error
\* NoInverse, which carries the matrix; it does not panic.
C13_InvertReturnsNoInverse ==
    (Returned("invert") /\ MDet(call.arg) = 0) =>
        /\ call.ret.kind = "Err"
        /\ call.ret.value = [error |-> "NoInverse", matrix |-> call.arg]

\* A finite, non-negative f32
FiniteNonNegative(v) == v >= 0 /\ v < F32_INFINITY

\* C14: Body::new and Body::new_polygon return an error for a mass that is
\* zero or negative, Body::new_polygon returns one for an empty vertex list,
\* and a body that a constructor does return has finite, non-negative inv_mass
\* and inv_moi.
C14_ConstructorsValidate ==
    (Returned("Body::new") \/ Returned("Body::new_polygon")) =>
        /\ call.arg.mass <= 0 => call.ret.kind = "Err"
        /\ (call.op = "Body::new_polygon" /\ call.arg.vertices = <<>>)
              => call.ret.kind = "Err"
        /\ call.ret.kind = "Ok" =>
              /\ FiniteNonNegative(call.ret.value.inv_mass)
              /\ FiniteNonNegative(call.ret.value.inv_moi)

\* The two boxes of a call of collide
AxisAligned == call.arg.a.rotation = 0 /\ call.arg.b.rotation = 0

CentreGap == VAbs(VSub(call.arg.b.position, call.arg.a.position))

WidthSum == VAdd(call.arg.a.width, call.arg.b.width)

\* The centres are farther apart along x or along y than the half-widths add up to
ApartOnAnAxis == 2 * CentreGap.x > WidthSum.x \/ 2 * CentreGap.y > WidthSum.y

\* The interiors of the two boxes meet
BoxesOverlap == 2 * CentreGap.x < WidthSum.x /\ 2 * CentreGap.y < WidthSum.y

CardinalNormals == {Vec2(1000, 0), Vec2(-1000, 0), Vec2(0, 1000), Vec2(0, -1000)}

\* C16: for two overlapping axis-aligned boxes of the same size, collide
\* returns exactly 2 contacts, each with separation <= 0 and with one of the
\* four cardinal unit vectors as its normal.
C16_OverlapTwoContacts ==
    (/\ Returned("collide")
     /\ AxisAligned
     /\ call.arg.a.width = call.arg.b.width
     /\ BoxesOverlap) =>
        /\ Len(call.ret) = 2
        /\ \A n \in 1..Len(call.ret) :
              /\ IsSome(call.ret[n])
              /\ Unwrap(call.ret[n]).separation <= 0
              /\ Unwrap(call.ret[n]).normal \in CardinalNormals

C16_Witness ==
    /\ Returned("collide")
    /\ AxisAligned
    /\ call.arg.a.width = call.arg.b.width
    /\ BoxesOverlap
    /\ CentreGap.x > 0
    /\ CentreGap.y > CentreGap.x
    /\ Len(call.ret) = 2
    /\ Unwrap(call.ret[1]).separation < 0
    /\ Unwrap(call.ret[1]).position # Unwrap(call.ret[2]).position

\* The polygon of a body in world space, as collide_polygons places it
WorldPolygon(body) == translate(rotate(get_polygon(body), body.rotation), body.position)

\* The normals of the edges of a vertex list, not normalised, in either winding
EdgeNormals(vs) ==
    {Vec2(vs[(k % Len(vs)) + 1].y - vs[k].y, vs[k].x - vs[(k % Len(vs)) + 1].x) :
        k \in 1..Len(vs)}

\* The exact projection of a point on an axis
Along(n, v) == n.x * v.x + n.y * v.y

\* Some edge normal of one of the two convex polygons has the polygons strictly
\* on different sides: the polygons share no point
PolygonsDisjoint(p, q) ==
    \E n \in EdgeNormals(p) \cup EdgeNormals(q) :
        \/ \A i \in 1..Len(p), j \in 1..Len(q) : Along(n, p[i]) < Along(n, q[j])
        \/ \A i \in 1..Len(p), j \in 1..Len(q) : Along(n, q[j]) < Along(n, p[i])

\* No edge normal separates the two convex polygons, even weakly: their
\* interiors share a point
PolygonsOverlap(p, q) ==
    \A n \in EdgeNormals(p) \cup EdgeNormals(q) :
        /\ \E i \in 1..Len(p), j \in 1..Len(q) : Along(n, p[i]) > Along(n, q[j])
        /\ \E i \in 1..Len(p), j \in 1..Len(q) : Along(n, q[j]) > Along(n, p[i])

\* C17: collide_polygons returns 0 contacts when the two world-space polygons
\* are disjoint and at least 1 contact when they overlap, for vertex lists of
\* either winding.
C17_PolygonContacts ==
    Returned("collide_polygons") =>
        /\ PolygonsDisjoint(WorldPolygon(call.arg.b1), WorldPolygon(call.arg.b2)) =>
              call.ret = <<>>
        /\ PolygonsOverlap(WorldPolygon(call.arg.b1), WorldPolygon(call.arg.b2)) =>
              Len(call.ret) >= 1

\* Twice the signed area of a vertex list, exactly: positive when the list is
\* counter-clockwise, negative when it is clockwise
RECURSIVE CrossSum(_, _)
CrossSum(vs, k) ==
    IF k = 0 THEN 0
    ELSE vs[k].x * vs[(k % Len(vs)) + 1].y - vs[k].y * vs[(k % Len(vs)) + 1].x
         + CrossSum(vs, k - 1)

TwiceSignedArea(vs) == CrossSum(vs, Len(vs))

\* C18: Body::new_polygon given a clockwise vertex list stores the vertices in
\* counter-clockwise order (get_polygon returns them so); a list that is
\* already counter-clockwise is stored unchanged.
C18_StoredCounterClockwise ==
    (Returned("Body::new_polygon") /\ call.ret.kind = "Ok") =>
        /\ TwiceSignedArea(call.arg.vertices) < 0 =>
              /\ TwiceSignedArea(get_polygon(call.ret.value)) > 0
              /\ get_polygon(call.ret.value) = Reverse(call.arg.vertices)
        /\ TwiceSignedArea(call.arg.vertices) > 0 =>
              get_polygon(call.ret.value) = call.arg.vertices

\* The body in free flight after T whole steps, and the time t = T * dt
Fallen == call.op = "World::step" /\ pc = "idle" /\ steps >= 1

FlightTime == steps * call.arg.dt

\* y0 + v0 * t, the part of the height that gravity does not contribute
Coasted == call.arg.body.position.y + FMul(call.arg.body.velocity.y, FlightTime)

HalfG == FDiv(gravity.y, 2 * Scale)

\* Each step rounds twice
Rounding == 2 * steps

\* C19: a single body of finite mass under gravity alone, stepped T times with
\* time step dt with the three flags disabled, has
\* position.y = y0 + v0*t + 0.5*g*t^2 at t = T*dt, for every T >= 1.
C19_ClosedFormHeight ==
    Fallen =>
        Abs(bodies[1].position.y
            - (Coasted + FMul(HalfG, FMul(FlightTime, FlightTime)))) <= Rounding

\* C19, as amended: position.y = y0 + v0*t + 0.5*g*t*(t + dt) at t = T*dt,
\* for every T >= 1: each step adds g*dt to the velocity before it moves the body.
C19_SteppedHeight ==
    Fallen =>
        Abs(bodies[1].position.y
            - (Coasted + FMul(HalfG, FMul(FlightTime, FlightTime + call.arg.dt))))
          <= Rounding

C19_Witness ==
    /\ Fallen
    /\ steps >= 2
    /\ call.arg.body.mass = 2000
    /\ call.arg.body.velocity.y > 0
    /\ bodies[1].position.y < call.arg.body.position.y
    /\ arbiters = <<>>

\* The number of quarter turns of an angle of AngleArgs, and the exact cosine
\* and sine of that many quarter turns
QuarterTurns(angle) == angle \div HALF_PI

QuarterCos(k) == <<Scale, 0, -Scale, 0>>[(k % 4) + 1]

QuarterSin(k) == <<0, Scale, 0, -Scale>>[(k % 4) + 1]

\* Equal within the error of the sine and cosine
Near(a, b) == Abs(a.x - b.x) <= Scale \div 100 /\ Abs(a.y - b.y) <= Scale \div 100

\* C20: Mat2x2::new_from_angle(t) has col1 = (cos t, sin t) and
\* col2 = (-sin t, cos t), so multiplying it by a vector rotates the vector
\* counter-clockwise by t (stated for t in multiples of 90 degrees).
C20_RotationColumns ==
    Returned("new_from_angle") =>
        LET c == QuarterCos(QuarterTurns(call.arg))
            s == QuarterSin(QuarterTurns(call.arg))
        IN  /\ Near(call.ret.col1, Vec2(c, s))
            /\ Near(call.ret.col2, Vec2(-s, c))
            /\ Near(MMulV(call.ret, Vec2(Scale, 0)), Vec2(c, s))
            /\ Near(MMulV(call.ret, Vec2(0, Scale)), Vec2(-s, c))

\* Two matrices equal within the error of the sine and cosine
MNear(m, n) == Near(m.col1, n.col1) /\ Near(m.col2, n.col2)

MIdentity == Mat2x2(Vec2(Scale, 0), Vec2(0, Scale))

\* C21: for every angle t, new_from_angle(t).invert() equals new_from_angle(-t),
\* which equals new_from_angle(t).transpose(), and
\* new_from_angle(t) * new_from_angle(-t) is the identity.
C21_RotationInverse ==
    Returned("rotation round trip") =>
        /\ call.ret.inverse.kind = "Ok"
        /\ MNear(call.ret.inverse.value, call.ret.negative)
        /\ MNear(call.ret.negative, call.ret.transposed)
        /\ MNear(call.ret.product, MIdentity)

C21_Witness ==
    /\ Returned("rotation round trip")
    /\ call.arg = -3 * (HALF_PI \div 2)
    /\ call.ret.inverse.kind = "Ok"
    /\ call.ret.inverse.value.col1.y < -(Scale \div 2)
    /\ ~MNear(call.ret.transposed, new_from_angle(call.arg))

\* The impulses (d_pn, d_pt) one Arbiter::apply_impulse call applies, contact
\* by contact, from contact k on
RECURSIVE AppliedImpulses(_, _, _, _, _)
AppliedImpulses(arbiter, k, body1, body2, ctx) ==
    IF k > Len(arbiter.contacts) THEN <<>>
    ELSE IF ~IsSome(arbiter.contacts[k])
    THEN AppliedImpulses(arbiter, k + 1, body1, body2, ctx)
    ELSE LET after(r) ==
                 <<[d_pn |-> r.d_pn, d_pt |-> r.d_pt]>>
                 \o AppliedImpulses(arbiter, k + 1, r.body1, r.body2, ctx)
         IN  after(ApplyImpulseContact(Unwrap(arbiter.contacts[k]), arbiter.friction,
                                       body1, body2, ctx))

\* A solver round is about to start: its first apply_impulse call is the one
\* on the first arbiter of the map's order, with the bodies as they are
RoundAhead == pc = "iterate" /\ round < iterations /\ arb_order # <<>>

NextApplied ==
    LET of(arbiter) ==
            AppliedImpulses(arbiter, 1, bodies[arbiter.body1], bodies[arbiter.body2],
                            world_context)
    IN  of(arbiters[arb_order[1]])

\* The accumulated impulses of every stored contact are within their limits
AccumulatedWithinLimits ==
    \A key \in DOMAIN arbiters :
        \A k \in 1..Len(arbiters[key].contacts) :
            IsSome(arbiters[key].contacts[k]) =>
                LET c == Unwrap(arbiters[key].contacts[k])
                IN  /\ c.pn >= 0
                    /\ Abs(c.pt) <= FMul(arbiters[key].friction, c.pn)

\* C22: with accumulate_impulse enabled every contact has pn >= 0 and pt within
\* [-friction*pn, +friction*pn] after every apply_impulse call and after
\* update carries impulses over; with it disabled every applied normal
\* impulse is >= 0 and every applied tangential impulse is within plus or
\* minus friction times that normal impulse.
C22_ImpulsesWithinLimits ==
    /\ world_context.accumulate_impulse => AccumulatedWithinLimits
    /\ (~world_context.accumulate_impulse /\ RoundAhead) =>
          \A n \in 1..Len(NextApplied) :
              /\ NextApplied[n].d_pn >= 0
              /\ Abs(NextApplied[n].d_pt)
                   <= FMul(arbiters[arb_order[1]].friction, NextApplied[n].d_pn)

\* A stored contact whose friction impulse sits on its limit
C22_Witness ==
    /\ world_context.accumulate_impulse
    /\ steps >= 1
    /\ \E key \in DOMAIN arbiters :
          \E k \in 1..Len(arbiters[key].contacts) :
              /\ IsSome(arbiters[key].contacts[k])
              /\ Unwrap(arbiters[key].contacts[k]).pn > 0
              /\ Unwrap(arbiters[key].contacts[k]).pt # 0
              /\ Abs(Unwrap(arbiters[key].contacts[k]).pt)
                   = FMul(arbiters[key].friction, Unwrap(arbiters[key].contacts[k]).pn)

\* The body is static and at rest
StaticAtRest(body) ==
    /\ body.inv_mass = 0
    /\ body.inv_moi = 0
    /\ body.velocity = VZero
    /\ body.angular_velocity = 0

\* The body is where it was and moves as it did
SameMotion(body, before) ==
    /\ body.position = before.position
    /\ body.rotation = before.rotation
    /\ body.velocity = before.velocity
    /\ body.angular_velocity = before.angular_velocity

\* The positions of the body list that hold the body they held when the step began
Still(k) == k \in 1..Len(bodies) /\ bodies[k].id = start.bodies[k].id

\* C23: a static body (inv_mass = 0, inv_moi = 0) at rest has the same position,
\* rotation, velocity and angular velocity after any step (and after each
\* phase of it) as before, whatever the gravity, the forces added to it and the
\* contacts and joints that involve it.
C23_StaticBodyStays ==
    steps >= 1 =>
        \A k \in 1..Len(start.bodies) :
            (Still(k) /\ StaticAtRest(start.bodies[k])) =>
                SameMotion(bodies[k], start.bodies[k])

\* A step has ended with a static body that had a force added and carries a
\* contact that pushed
C23_Witness ==
    /\ StepDone
    /\ gravity # VZero
    /\ \E k \in 1..Len(start.bodies) :
          /\ Still(k)
          /\ StaticAtRest(start.bodies[k])
          /\ start.bodies[k].force # VZero
          /\ \E key \in DOMAIN arbiters :
                /\ k \in {arbiters[key].body1, arbiters[key].body2}
                /\ \E n \in 1..Len(arbiters[key].contacts) :
                      /\ IsSome(arbiters[key].contacts[n])
                      /\ Unwrap(arbiters[key].contacts[n]).pn > 0

\* The step is in its last phase: the solver rounds are over
RoundsOver == pc = "iterate" /\ round >= iterations

\* C24: within one step no body's position or rotation changes during the
\* broad phase, force integration, pre-step or the solver rounds; they change
\* once, in velocity integration, which ends the step, by velocity*dt and
\* angular_velocity*dt of the velocities the last solver round left.
C24_PositionsChangeOnce ==
    [][pc # "idle" =>
         /\ Len(bodies') = Len(bodies)
         /\ \A k \in 1..Len(bodies) :
               IF RoundsOver
               THEN /\ bodies'[k].position
                         = VAdd(bodies[k].position, VMul(bodies[k].velocity, dt))
                    /\ bodies'[k].rotation
                         = bodies[k].rotation + FMul(bodies[k].angular_velocity, dt)
                    /\ pc' = "idle"
               ELSE /\ bodies'[k].position = bodies[k].position
                    /\ bodies'[k].rotation = bodies[k].rotation]_vars

\* A step has ended in which the solver changed a body's velocities and the
\* body moved and turned
C24_Witness ==
    /\ StepDone
    /\ iterations >= 1
    /\ arbiters # <<>>
    /\ \E k \in 1..Len(start.bodies) :
          /\ Still(k)
          /\ bodies[k].position # start.bodies[k].position
          /\ bodies[k].rotation # start.bodies[k].rotation
          /\ bodies[k].position
               # VAdd(start.bodies[k].position, VMul(start.bodies[k].velocity, dt))

\* C25: with warm_starting disabled, no body's linear or angular velocity
\* differs between the start and the end of the pre-step phase of any step,
\* for arbiters and for joints, whatever accumulate_impulse is.
C25_ColdPreStepKeepsVelocities ==
    [][(pc = "pre_step" /\ ~world_context.warm_starting) =>
         /\ Len(bodies') = Len(bodies)
         /\ \A k \in 1..Len(bodies) :
               /\ bodies'[k].velocity = bodies[k].velocity
               /\ bodies'[k].angular_velocity = bodies[k].angular_velocity]_vars

\* The pre-step phase of a later step is over, without warm starting and with
\* accumulated impulses: an arbiter that pushed in the step before is still
\* in the map and a joint has been pre-stepped
C25_Witness ==
    /\ pc = "iterate"
    /\ round = 0
    /\ steps >= 2
    /\ ~world_context.warm_starting
    /\ world_context.accumulate_impulse
    /\ joints # <<>>
    /\ \E key \in DOMAIN arbiters \cap DOMAIN start.arbiters :
          \E n \in 1..Len(start.arbiters[key].contacts) :
              /\ IsSome(start.arbiters[key].contacts[n])
              /\ Unwrap(start.arbiters[key].contacts[n]).pn > 0

\* The world's only constraint is one joint, so that what happens to the
\* velocities of its two bodies in the pre-step and in a solver round is the
\* joint's doing
OnlyAJoint == Len(joints) = 1 /\ arbiters = <<>>

\* The velocities of the joint's bodies after the step are those before it
\* with the impulse taken from body 1 and given to body 2, at the joint's arms
ImpulseWentToBodies(impulse) ==
    LET joint == joints'[1]
        b1 == bodies[joint.body_1]
        b2 == bodies[joint.body_2]
    IN  /\ bodies'[joint.body_1].velocity = VSub(b1.velocity, VMul(impulse, b1.inv_mass))
        /\ bodies'[joint.body_1].angular_velocity
             = b1.angular_velocity - FMul(b1.inv_moi, CrossVV(joint.r1, impulse))
        /\ bodies'[joint.body_2].velocity = VAdd(b2.velocity, VMul(impulse, b2.inv_mass))
        /\ bodies'[joint.body_2].angular_velocity
             = b2.angular_velocity + FMul(b2.inv_moi, CrossVV(joint.r2, impulse))

\* C26: a joint's p is the sum of the impulses its apply_impulse calls applied
\* to the bodies.  With warm_starting, pre_step applies p to both bodies (body 1
\* subtracts, body 2 adds) and keeps it; without, pre_step resets p to zero.  No
\* other phase of a step changes p.
C26_JointImpulseAccumulates ==
    [][(pc \notin {"idle", "panicked"} /\ pc' # "panicked" /\ joints # <<>>) =>
         /\ Len(joints') = Len(joints)
         /\ \A j \in 1..Len(joints) :
               IF pc = "pre_step"
               THEN joints'[j].p = IF world_context.warm_starting
                                   THEN joints[j].p ELSE VZero
               ELSE IF pc = "iterate" /\ round < iterations
               THEN TRUE
               ELSE joints'[j].p = joints[j].p
         /\ (OnlyAJoint /\ pc = "pre_step") =>
               IF world_context.warm_starting
               THEN ImpulseWentToBodies(joints[1].p)
               ELSE ImpulseWentToBodies(VZero)
         /\ (OnlyAJoint /\ pc = "iterate" /\ round < iterations) =>
               ImpulseWentToBodies(VSub(joints'[1].p, joints[1].p))]_vars

\* A warm-started joint, alone in its world, carries the impulse of the step
\* before into a solver round
C26_Witness ==
    /\ pc = "iterate"
    /\ round = 1
    /\ steps >= 2
    /\ OnlyAJoint
    /\ world_context.warm_starting
    /\ start.joints # <<>>
    /\ start.joints[1].p # VZero
    /\ joints[1].p # start.joints[1].p

\* The new contacts that are present, in order, and those of them that no
\* present old contact has the feature value of
PresentNew == SelectSeq(call.arg.new_contacts, IsSome)

Unmatched(new_contact) ==
    \A j \in 1..Len(call.arg.arbiter.contacts) :
        IsSome(call.arg.arbiter.contacts[j]) =>
            Unwrap(call.arg.arbiter.contacts[j]).feature.value
              # Unwrap(new_contact).feature.value

\* C27: Arbiter::update never returns an error: a new contact that no old
\* contact matches is stored as a fresh contact with pn = pt = pnb = 0, and
\* NoOldContactFound / NoNewContactFound are not returned.
C27_UpdateNeverFails ==
    Returned("Arbiter::update") =>
        /\ call.ret.result = "Ok"
        /\ Len(call.ret.arbiter.contacts) = Len(PresentNew)
        /\ \A n \in 1..Len(PresentNew) :
              Unmatched(PresentNew[n]) =>
                  /\ IsSome(call.ret.arbiter.contacts[n])
                  /\ Unwrap(call.ret.arbiter.contacts[n]).feature
                       = Unwrap(PresentNew[n]).feature
                  /\ Unwrap(call.ret.arbiter.contacts[n]).pn = 0
                  /\ Unwrap(call.ret.arbiter.contacts[n]).pt = 0
                  /\ Unwrap(call.ret.arbiter.contacts[n]).pnb = 0

\* An update under warm starting that carried impulses over to one contact
\* and stored another, which matched nothing, as a fresh one; an old slot was empty
C27_Witness ==
    /\ Returned("Arbiter::update")
    /\ call.arg.world_context.warm_starting
    /\ \E j \in 1..Len(call.arg.arbiter.contacts) : ~IsSome(call.arg.arbiter.contacts[j])
    /\ Len(PresentNew) = 2
    /\ Unmatched(PresentNew[1])
    /\ ~Unmatched(PresentNew[2])
    /\ call.ret.result = "Ok"
    /\ Unwrap(call.ret.arbiter.contacts[1]).pn = 0
    /\ Unwrap(call.ret.arbiter.contacts[2]).pn > 0

\* The vertex stored at index i modulo n, counted from 0
Stored(vs, i) == vs[(i % Len(vs)) + 1]

\* C28: get_vertex(i) returns the vertex stored at index i modulo n for every
\* integer i, negative i and i >= n included (get_vertex(0) is the first
\* vertex), and get_edge(i) runs from stored vertex i to stored vertex i + 1.
C28_GetVertexWraps ==
    Returned("get_vertex") =>
        /\ call.ret.vertex = Ok(Stored(call.arg.vertices, call.arg.i))
        /\ call.ret.edge = Ok(VSub(Stored(call.arg.vertices, call.arg.i + 1),
                                   Stored(call.arg.vertices, call.arg.i)))

\* C29: for every matrix M with nonzero determinant, also when the determinant
\* is not 1, M.invert() is the true inverse: M * M.invert() is the identity.
C29_InvertIsInverse ==
    (Returned("invert") /\ MDet(call.arg) # 0) =>
        /\ call.ret.kind = "Ok"
        /\ MNear(MMulM(call.arg, call.ret.value), MIdentity)

\* Both bodies of the arbiter are boxes
BoxPair(arbiter) ==
    bodies[arbiter.body1].shape = "Box" /\ bodies[arbiter.body2].shape = "Box"

\* C30: in every reachable world state each arbiter of the arbiter map has
\* num_contacts equal to the number of contacts it stores, every stored contact
\* slot is present (Some), the count is at least 1, and for a box-box pair it
\* is at most 2.
C30_ContactCounts ==
    \A key \in DOMAIN arbiters :
        /\ arbiters[key].num_contacts = Len(arbiters[key].contacts)
        /\ \A n \in 1..Len(arbiters[key].contacts) : IsSome(arbiters[key].contacts[n])
        /\ arbiters[key].num_contacts >= 1
        /\ BoxPair(arbiters[key]) => arbiters[key].num_contacts <= 2

C30_Witness ==
    /\ steps >= 2
    /\ \E key \in DOMAIN arbiters \cap DOMAIN start.arbiters :
          /\ BoxPair(arbiters[key])
          /\ arbiters[key].num_contacts # start.arbiters[key].num_contacts
          /\ arbiters[key].num_contacts = Len(arbiters[key].contacts)

====
